---- MODULE Spec2Model ----
(***************************************************************************)
(* FlexyPe inventory reservation engine.                                   *)
(*                                                                         *)
(* The state is the Redis keyspace the backend uses (inventory:<sku>,      *)
(* reservation:<id>, the sorted set expiring_reservations,                 *)
(* idempotency:<key>, ratelimit:<user>:<path>), the audit table the expiry *)
(* worker appends to, the wall clock, and one record per running task      *)
(* (a request handler, a direct service call, or an expiry-worker tick)    *)
(* holding its program counter and its local variables.                    *)
(*                                                                         *)
(* Every Redis command is one atomic step; a task may be preempted between *)
(* any two commands.  Local computation between two commands is folded     *)
(* into the command that follows it.                                       *)
(***************************************************************************)
EXTENDS Integers, Sequences, FiniteSets, TLC

(***************************************************************************)
(* Bounds of the model.                                                    *)
(***************************************************************************)
MaxStock == 1          \* largest value set_inventory is given
MaxQty == 2            \* largest quantity requested (the schema allows up to 5)
MaxRes == 1            \* reservation ids minted in one behaviour
MaxTime == 1           \* the clock runs 0..MaxTime
NumRacers == 3         \* tasks of the last-item race
MaxKeyedStock == 2     \* largest stock of the idempotent-replay runs
MaxKeyedRes == 2       \* reservation ids minted in an idempotent-replay run
MaxOrders == 2         \* order rows inserted in one behaviour
MaxRestores == 2       \* restores of one id up to which the worker's commands fail
MaxLive == 2           \* reservations that can be live at once, where several coexist
\* Settings of app/core/config.py, in clock ticks instead of seconds.
RESERVATION_TTL_SECONDS == 1
IDEMPOTENCY_CACHE_TTL_SECONDS == 2
RATE_LIMIT_PER_MINUTE == 2
\* Defaults of parameters, in clock ticks.
grace_period_seconds == 1
window_seconds == 2

MIN_QUANTITY_PER_RESERVE == 1

Users == {"u1", "u2"}
Keys == {"k1"}
Sockets == {"w1", "w2"}
NoKey == "nokey"
Quantities == MIN_QUANTITY_PER_RESERVE..MaxQty

VARIABLES
    now,        \* time.time() / datetime.utcnow(), in ticks
    tzOffset,   \* local time minus UTC on the host, in ticks
    stock,      \* inventory:<sku> -> integer
    ledger,     \* reservation:<id> -> ReservationData, for the ids that exist
    index,      \* expiring_reservations: id -> score, for its members
    idem,       \* idempotency:<key> -> cached response (rid = 0: no such key)
    rate,       \* ratelimit:<user>:/api/v1/inventory/reserve (count = 0: no such key)
    audit,      \* rows of audit_log
    orders,     \* rows of the orders table: order_id -> row
    nextOrder,  \* the next fresh order id (uuid4)
    nextId,     \* the next fresh reservation id (uuid4)
    task,       \* task -> its pc and locals
    issued,     \* ids a caller has been handed
    setValue,   \* history: sku -> the value of the last set_inventory
    confirmed,  \* history: ids confirm_reservation returned successfully
    restored,   \* history: id -> times its quantity was added back to stock
    responses,  \* history: the successful returns of reserve
    admitted,   \* history: user -> requests let past the limiter since the key appeared
    registry,   \* manager.active_connections: sku -> its list of websockets
    inbox,      \* websocket -> the messages send_json has delivered to it
    conn        \* websocket -> where its websocket_endpoint handler stands

stores == <<stock, ledger, index, idem, rate, audit>>
orderTable == <<orders, nextOrder>>
streams == <<registry, inbox, conn>>
history == <<issued, setValue, confirmed, restored, responses, admitted>>
vars == <<now, tzOffset, stock, ledger, index, idem, rate, audit, orders, nextOrder,
          nextId, task,
          issued, setValue, confirmed, restored, responses, admitted,
          registry, inbox, conn>>

(***************************************************************************)
(* Values.                                                                 *)
(***************************************************************************)
NoBlob == [user_id |-> "none", sku |-> "none", quantity |-> 0, created_at |-> 0]
NoOut == [rid |-> 0, t |-> 0, tz |-> "none", available |-> 0, retry_after |-> 0]
NoIdem == [rid |-> 0, sku |-> "none", quantity |-> 0, t |-> 0, exp |-> 0]
NoRate == [count |-> 0, exp |-> 0]
NoMessage == [type |-> "none", sku |-> "none", available |-> 0, total |-> 0, of |-> 0]
\* No key for the sku in active_connections.  gen tells the list objects the
\* key has held apart: a broadcast iterates the object it fetched.
NoList == [present |-> FALSE, gen |-> 0, list |-> <<>>]
\* A websocket whose handler has not started.  base: the changes of its
\* sku's availability that had completed when it was registered.
NoSocket == [at |-> "new", sku |-> "none", base |-> 0]

Idle == [op |-> "none", pc |-> "idle", route |-> FALSE, user |-> "none",
         sku |-> "none", quantity |-> 0, key |-> NoKey, rid |-> 0,
         data |-> NoBlob, pre |-> NoBlob, score |-> 0, dirty |-> FALSE,
         cur |-> 0, snap |-> <<>>, order |-> 0, late |-> FALSE,
         res |-> "none", out |-> NoOut, msg |-> NoMessage, gen |-> 0,
         dead |-> <<>>]

\* A task that has ended: what its caller sees.
Raised(t, what) == [Idle EXCEPT !.op = t.op, !.pc = "done", !.res = what]

Tasks == DOMAIN task
Skus == DOMAIN stock
Exists(r) == r \in DOMAIN ledger
Indexed(r) == r \in DOMAIN index

\* datetime.timestamp() of a naive datetime reads it as local time.
Timestamp(naive) == naive - tzOffset

\* expires_at.isoformat() + 'Z', then fromisoformat(s.replace('Z', '+00:00')):
\* the instant is kept and the value becomes timezone-aware.
IsoFormatZ(t) == [t |-> t, suffix |-> "Z"]
FromIsoFormat(s) == [t |-> s.t, tz |-> IF s.suffix = "Z" THEN "utc" ELSE "naive"]

\* if expires_at.tzinfo is None: expires_at = expires_at.replace(tzinfo=timezone.utc)
EnsureUtc(e) == IF e.tz = "naive" THEN [e EXCEPT !.tz = "utc"] ELSE e

\* Redis marks a client that WATCHes a key dirty when another command changes
\* the key.  idx: the command changed expiring_reservations; rids: the
\* reservation:<id> keys it changed.
Touched(tk, idx, rids) ==
    [q \in DOMAIN tk |->
        IF /\ tk[q].op = "confirm"
           /\ tk[q].pc \in {"cf_zscore", "cf_exec"}
           /\ (idx \/ tk[q].rid \in rids)
        THEN [tk[q] EXCEPT !.dirty = TRUE]
        ELSE tk[q]]

RECURSIVE Sum(_, _)
Sum(f, S) == IF S = {} THEN 0
             ELSE LET x == CHOOSE y \in S : TRUE IN f[x] + Sum(f, S \ {x})

InFlight(p) == task[p].pc \notin {"idle", "done"}
Quiescent == \A p \in Tasks : ~InFlight(p)

\* A reserve may take stock while fewer than limit ids have been minted or
\* are about to be (the bound on the ids of one behaviour).
IdsLeft(limit) ==
    nextId + Cardinality({p \in Tasks : task[p].pc = "set_blob"}) <= limit

(***************************************************************************)
(* The initial state: empty Redis, then set_inventory(sku, n) for each     *)
(* sku, with every task idle.                                              *)
(***************************************************************************)
InitWith(tasks, skus, offsets, maxStock) ==
    /\ now = 0
    /\ tzOffset \in offsets
    /\ stock \in [skus -> 0..maxStock]
    /\ setValue = stock
    /\ ledger = <<>>
    /\ index = <<>>
    /\ idem = [k \in Keys |-> NoIdem]
    /\ rate = [u \in Users |-> NoRate]
    /\ audit = {}
    /\ orders = <<>>
    /\ nextOrder = 1
    /\ nextId = 1
    /\ task = [p \in tasks |-> Idle]
    /\ issued = {}
    /\ confirmed = {}
    /\ restored = <<>>
    /\ responses = {}
    /\ admitted = [u \in Users |-> 0]
    /\ registry = [s \in skus |-> NoList]
    /\ inbox = [c \in Sockets |-> <<>>]
    /\ conn = [c \in Sockets |-> NoSocket]

(***************************************************************************)
(* Stock Store: the two Lua scripts of redis_client.py, as functions of    *)
(* the value of inventory:<sku> (a missing key reads as 0).                *)
(***************************************************************************)
\* Mutant: the decrement without the check.
ReserveScript_Unchecked(available, quantity) ==
    [ok |-> 1, value |-> available - quantity]

\* Mutant: the check off by one, so that the last unit is never sold.
ReserveScript_Strict(available, quantity) ==
    IF available > quantity
    THEN [ok |-> 1, value |-> available - quantity]
    ELSE [ok |-> 0, value |-> available]

\* Mutant: a partial fill, the script hands out what is left.
ReserveScript_Partial(available, quantity) ==
    IF available >= quantity
    THEN [ok |-> 1, value |-> available - quantity]
    ELSE IF available > 0 THEN [ok |-> 1, value |-> 0]
    ELSE [ok |-> 0, value |-> available]

ReserveScript(available, quantity) ==
    IF available >= quantity
    THEN [ok |-> 1, value |-> available - quantity]
    ELSE [ok |-> 0, value |-> available]

RestoreScript(available, quantity) == available + quantity

(***************************************************************************)
(* Rate limiter: the wrapper of rate_limit() around the reserve route.     *)
(***************************************************************************)
\* redis.get(rate_key): None is read as 0 (a live key holds at least 1).
RateGet(u) == rate[u].count

\* redis.ttl(rate_key): -2 without the key, -1 without an expiry.
RateTtl(u) ==
    IF rate[u].count = 0 THEN -2
    ELSE IF rate[u].exp = 0 THEN -1
    ELSE rate[u].exp - now

\* if current_count >= max_requests
RateExceeded(current_count, max_requests) == current_count >= max_requests

\* POST /api/v1/inventory/reserve arrives: rate_limit's wrapper starts.
StartReserveRoute(p, u, s, q, k) ==
    /\ task[p].pc = "idle"
    /\ task' = [task EXCEPT ![p] = [Idle EXCEPT !.op = "reserve", !.pc = "rl_get",
                   !.route = TRUE, !.user = u, !.sku = s, !.quantity = q, !.key = k]]
    /\ UNCHANGED <<now, tzOffset, orderTable, streams, stores, nextId, history>>

\* current = redis.get(rate_key)
RLGet(p) ==
    /\ task[p].pc = "rl_get"
    /\ task' = [task EXCEPT ![p].cur = RateGet(task[p].user), ![p].pc = "rl_act"]
    /\ UNCHANGED <<now, tzOffset, orderTable, streams, stores, nextId, history>>

\* The pc of a request the limiter has let through: reserve_inventory's first command.
AfterLimiter(t) == IF t.key # NoKey THEN "idem_get" ELSE "script"

\* current is None: pipe.setex(rate_key, window_seconds, 1)
RLSetex(p) ==
    /\ task[p].pc = "rl_act"
    /\ task[p].cur = 0
    /\ rate' = [rate EXCEPT ![task[p].user] = [count |-> 1, exp |-> now + window_seconds]]
    /\ admitted' = [admitted EXCEPT ![task[p].user] = @ + 1]
    /\ task' = [task EXCEPT ![p].pc = AfterLimiter(task[p]), ![p].cur = 0]
    /\ UNCHANGED <<now, tzOffset, orderTable, streams, stock, ledger, index, idem, audit, nextId,
                   issued, setValue, confirmed, restored, responses>>

\* Mutant: a rejected request is counted too.
RLReject_Counted(p) ==
    /\ task[p].pc = "rl_act"
    /\ task[p].cur # 0
    /\ RateExceeded(task[p].cur, RATE_LIMIT_PER_MINUTE)
    /\ rate' = [rate EXCEPT ![task[p].user].count = @ + 1]
    /\ task' = [task EXCEPT ![p] = Raised(@, "429")]
    /\ UNCHANGED <<now, tzOffset, orderTable, streams, stock, ledger, index, idem, audit, nextId, history>>

\* current_count >= max_requests: ttl = redis.ttl(rate_key); raise HTTPException(429)
RLReject(p) ==
    /\ task[p].pc = "rl_act"
    /\ task[p].cur # 0
    /\ RateExceeded(task[p].cur, RATE_LIMIT_PER_MINUTE)
    /\ LET ttl == RateTtl(task[p].user) IN
       task' = [task EXCEPT ![p] = [Raised(@, "429") EXCEPT
                   !.out = [NoOut EXCEPT !.retry_after =
                               IF ttl > 0 THEN ttl ELSE window_seconds]]]
    /\ UNCHANGED <<now, tzOffset, orderTable, streams, stores, nextId, history>>

\* redis.incr(rate_key): a key that is gone is created, holding 1, with no expiry.
RLIncr(p) ==
    /\ task[p].pc = "rl_act"
    /\ task[p].cur # 0
    /\ ~RateExceeded(task[p].cur, RATE_LIMIT_PER_MINUTE)
    /\ rate' = [rate EXCEPT ![task[p].user] =
                   IF @.count = 0 THEN [count |-> 1, exp |-> 0]
                   ELSE [@ EXCEPT !.count = @ + 1]]
    /\ admitted' = [admitted EXCEPT ![task[p].user] = @ + 1]
    /\ task' = [task EXCEPT ![p].pc = AfterLimiter(task[p]), ![p].cur = 0]
    /\ UNCHANGED <<now, tzOffset, orderTable, streams, stock, ledger, index, idem, audit, nextId,
                   issued, setValue, confirmed, restored, responses>>

(***************************************************************************)
(* ReservationService.reserve_inventory.                                   *)
(***************************************************************************)
\* A direct call of the service (as the unit tests make it).
StartReserve(p, u, s, q, k) ==
    /\ task[p].pc = "idle"
    /\ task' = [task EXCEPT ![p] = [Idle EXCEPT !.op = "reserve",
                   !.pc = IF k # NoKey THEN "idem_get" ELSE "script",
                   !.user = u, !.sku = s, !.quantity = q, !.key = k]]
    /\ UNCHANGED <<now, tzOffset, orderTable, streams, stores, nextId, history>>

\* What reserve_inventory returns to its caller: (reservation_id, expires_at).
\* sku and quantity are those of the reservation the call made (quantity 0:
\* it made none, the answer came from the idempotency cache).
Response(t, rid, expires_at, hit) ==
    [key |-> t.key, rid |-> rid, sku |-> t.sku,
     quantity |-> IF hit THEN 0 ELSE t.quantity, hit |-> hit,
     expires_at |-> expires_at]

\* How a call that got its reservation ends.  A direct call returns.  The
\* route builds ReserveInventoryResponse(expires_at=<datetime>, ...) for a
\* field declared expires_at: str, inside try/except Exception: with a
\* pydantic that coerces the value the request ends 201, with one that
\* refuses it the ValidationError is caught and the request ends 500.
ResponseStatuses(t) == IF t.route THEN {"201", "500"} ELSE {"ok"}

\* The route, its response built, goes on to its broadcast (pc "bc_status")
\* before it answers 201.
Returned(t, rid, expires_at, status) ==
    LET e == IF t.route THEN EnsureUtc(expires_at) ELSE expires_at
        r == [Raised(t, status) EXCEPT
                 !.quantity = t.quantity,
                 !.out = [NoOut EXCEPT !.rid = rid, !.t = e.t, !.tz = e.tz]] IN
    IF t.route /\ status = "201"
    THEN [r EXCEPT !.pc = "bc_status", !.route = TRUE, !.sku = t.sku]
    ELSE r

\* check_idempotency: cached = redis.get("idempotency:" + key); a hit returns
\* the cached reservation_id and the parsed expires_at.
IdemGet(p) ==
    /\ task[p].pc = "idem_get"
    /\ LET cached == idem[task[p].key] IN
       IF cached.rid # 0
       THEN LET expires_at == FromIsoFormat(IsoFormatZ(cached.t)) IN
            /\ \E status \in ResponseStatuses(task[p]) :
                   task' = [task EXCEPT ![p] = Returned(task[p], cached.rid, expires_at, status)]
            /\ responses' = responses \cup {Response(task[p], cached.rid, expires_at, TRUE)}
            /\ issued' = issued \cup {cached.rid}
       ELSE /\ task' = [task EXCEPT ![p].pc = "script"]
            /\ UNCHANGED <<responses, issued>>
    /\ UNCHANGED <<now, tzOffset, orderTable, streams, stores, nextId, setValue, confirmed, restored, admitted>>

\* success = self.reserve_script(keys=[inventory_key], args=[quantity])
ReserveDecrement(p) ==
    /\ task[p].pc = "script"
    /\ LET r == ReserveScript(stock[task[p].sku], task[p].quantity) IN
       /\ stock' = [stock EXCEPT ![task[p].sku] = r.value]
       /\ task' = [task EXCEPT ![p].pc = IF r.ok = 1 THEN "set_blob" ELSE "insuf_get"]
    /\ UNCHANGED <<now, tzOffset, orderTable, streams, ledger, index, idem, rate, audit, nextId, history>>

\* not success: available = int(self.redis.get(inventory_key) or 0);
\* raise InsufficientInventoryError(available)  (409 on the route)
ReserveInsufficient(p) ==
    /\ task[p].pc = "insuf_get"
    /\ task' = [task EXCEPT ![p] =
                   [Raised(@, IF @.route THEN "409" ELSE "insufficient") EXCEPT
                       !.quantity = task[p].quantity,
                       !.out = [NoOut EXCEPT !.available = stock[task[p].sku]]]]
    /\ UNCHANGED <<now, tzOffset, orderTable, streams, stores, nextId, history>>

\* reservation_id = uuid4; created_at = utcnow(); redis.set(reservation_key, blob)
ReserveSetBlob(p) ==
    /\ task[p].pc = "set_blob"
    /\ LET rid == nextId
           blob == [user_id |-> task[p].user, sku |-> task[p].sku,
                    quantity |-> task[p].quantity, created_at |-> now] IN
       /\ ledger' = (rid :> blob) @@ ledger
       /\ task' = [Touched(task, FALSE, {rid}) EXCEPT
                      ![p].pc = "zadd", ![p].rid = rid, ![p].data = blob]
    /\ nextId' = nextId + 1
    /\ restored' = (nextId :> 0) @@ restored
    /\ UNCHANGED <<now, tzOffset, orderTable, streams, stock, index, idem, rate, audit,
                   issued, setValue, confirmed, responses, admitted>>

\* expires_at = created_at + timedelta(seconds=RESERVATION_TTL_SECONDS)
ExpiresAt(created_at) == [t |-> created_at + RESERVATION_TTL_SECONDS, tz |-> "naive"]

\* redis.zadd("expiring_reservations", {reservation_id: expires_at.timestamp()});
\* without an idempotency key the call returns here.
ReserveZadd(p) ==
    /\ task[p].pc = "zadd"
    /\ LET rid == task[p].rid
           expires_at == ExpiresAt(task[p].data.created_at)
           tk == Touched(task, TRUE, {}) IN
       /\ index' = (rid :> Timestamp(expires_at.t)) @@ index
       /\ IF task[p].key # NoKey
          THEN /\ task' = [tk EXCEPT ![p].pc = "idem_set"]
               /\ UNCHANGED <<responses, issued>>
          ELSE /\ \E status \in ResponseStatuses(task[p]) :
                      task' = [tk EXCEPT ![p] = Returned(task[p], rid, expires_at, status)]
               /\ responses' = responses \cup {Response(task[p], rid, expires_at, FALSE)}
               /\ issued' = issued \cup {rid}
    /\ UNCHANGED <<now, tzOffset, orderTable, streams, stock, ledger, idem, rate, audit, nextId,
                   setValue, confirmed, restored, admitted>>

\* The task running reserve_inventory stops for good between two Redis
\* commands after the script took the stock (the process is killed, the
\* request is abandoned): nothing it had not yet done is done.
Abandon(p) ==
    /\ task[p].op = "reserve"
    /\ task[p].pc \in {"set_blob", "zadd"}
    /\ task' = [task EXCEPT ![p] = [Raised(@, "abandoned") EXCEPT
                                       !.quantity = task[p].quantity]]
    /\ UNCHANGED <<now, tzOffset, orderTable, streams, stores, nextId, history>>

\* redis.set(...) or redis.zadd(...) raises (connection lost, timeout): the
\* exception leaves reserve_inventory, which has no handler around the two
\* writes; the route's "except Exception" answers 500.
ReserveWriteFails(p) ==
    /\ task[p].op = "reserve"
    /\ task[p].pc \in {"set_blob", "zadd"}
    /\ task' = [task EXCEPT ![p] =
                   [Raised(@, IF @.route THEN "500" ELSE "error") EXCEPT
                       !.quantity = task[p].quantity]]
    /\ UNCHANGED <<now, tzOffset, orderTable, streams, stores, nextId, history>>

\* Mutant: the cached response carries an expiry computed afresh, not the
\* reservation's.
ReserveIdemSetex_Recomputed(p) ==
    /\ task[p].pc = "idem_set"
    /\ LET rid == task[p].rid
           expires_at == ExpiresAt(task[p].data.created_at) IN
       /\ idem' = [idem EXCEPT ![task[p].key] =
                      [rid |-> rid, sku |-> task[p].sku, quantity |-> task[p].quantity,
                       t |-> IsoFormatZ(ExpiresAt(now).t).t,
                       exp |-> now + IDEMPOTENCY_CACHE_TTL_SECONDS]]
       /\ \E status \in ResponseStatuses(task[p]) :
              task' = [task EXCEPT ![p] = Returned(task[p], rid, expires_at, status)]
       /\ responses' = responses \cup {Response(task[p], rid, expires_at, FALSE)}
       /\ issued' = issued \cup {rid}
    /\ UNCHANGED <<now, tzOffset, orderTable, streams, stock, ledger, index, rate, audit, nextId,
                   setValue, confirmed, restored, admitted>>

\* redis.setex("idempotency:" + key, IDEMPOTENCY_CACHE_TTL_SECONDS, json.dumps(response));
\* return reservation_id, expires_at
ReserveIdemSetex(p) ==
    /\ task[p].pc = "idem_set"
    /\ LET rid == task[p].rid
           expires_at == ExpiresAt(task[p].data.created_at) IN
       /\ idem' = [idem EXCEPT ![task[p].key] =
                      [rid |-> rid, sku |-> task[p].sku, quantity |-> task[p].quantity,
                       t |-> IsoFormatZ(expires_at.t).t,
                       exp |-> now + IDEMPOTENCY_CACHE_TTL_SECONDS]]
       /\ \E status \in ResponseStatuses(task[p]) :
              task' = [task EXCEPT ![p] = Returned(task[p], rid, expires_at, status)]
       /\ responses' = responses \cup {Response(task[p], rid, expires_at, FALSE)}
       /\ issued' = issued \cup {rid}
    /\ UNCHANGED <<now, tzOffset, orderTable, streams, stock, ledger, index, rate, audit, nextId,
                   setValue, confirmed, restored, admitted>>

\* The caller has its answer; the task slot is free for the next call.
Finish(p) ==
    /\ task[p].pc = "done"
    /\ task' = [task EXCEPT ![p] = Idle]
    /\ UNCHANGED <<now, tzOffset, orderTable, streams, stores, nextId, history>>

(***************************************************************************)
(* ReservationService.confirm_reservation: WATCH / MULTI / EXEC.           *)
(***************************************************************************)
Remove(f, r) == [x \in DOMAIN f \ {r} |-> f[x]]


\* The HTTP status confirm_checkout gives an exception of confirm_reservation:
\* "not found" or "expired" in the message: 404; "another user": 403; any
\* other exception (redis WatchError) is re-raised and ends as 500.
CheckoutStatus(result) ==
    IF result \in {"not_found", "invalid", "expired"} THEN "404"
    ELSE IF result = "wrong_owner" THEN "403"
    ELSE "500"

\* confirm_checkout has ended with this HTTP status.
Answered(t, status) ==
    [Raised(t, status) EXCEPT !.route = TRUE, !.rid = t.rid, !.late = t.late]

\* confirm_reservation returns or raises: to the caller of the service, or
\* into confirm_checkout, which goes on to its order row.
ConfirmReturn(t, result) ==
    IF ~t.route THEN Raised(t, result)
    ELSE IF result = "ok" THEN [t EXCEPT !.pc = "co_commit"]
    ELSE IF t.pre # NoBlob THEN [t EXCEPT !.pc = "co_fail", !.res = result]
    ELSE Answered(t, CheckoutStatus(result))

StartConfirm(p, rid, u) ==
    /\ task[p].pc = "idle"
    /\ task' = [task EXCEPT ![p] = [Idle EXCEPT !.op = "confirm", !.pc = "cf_watch",
                   !.user = u, !.rid = rid]]
    /\ UNCHANGED <<now, tzOffset, orderTable, streams, stores, nextId, history>>

\* pipe.watch(reservation_key); pipe.watch("expiring_reservations");
\* data = pipe.get(reservation_key); not data: raise ValueError("Reservation not found")
\* (a change between the three commands is either seen by the GET or marks
\* the client dirty exactly as it does after them)
ConfirmWatchGet(p) ==
    /\ task[p].pc = "cf_watch"
    /\ task' = [task EXCEPT ![p] =
                   IF Exists(task[p].rid)
                   THEN [@ EXCEPT !.pc = "cf_zscore", !.data = ledger[task[p].rid],
                                  !.dirty = FALSE]
                   ELSE ConfirmReturn(@, "not_found")]
    /\ UNCHANGED <<now, tzOffset, orderTable, streams, stores, nextId, history>>

\* Mutant: the expiry check without the grace period.
ConfirmExpired_NoGrace(current_timestamp, expiry_score, grace) ==
    current_timestamp > expiry_score

\* if current_timestamp > (expiry_score + grace_period_seconds): raise
ConfirmExpired(current_timestamp, expiry_score, grace) ==
    current_timestamp > expiry_score + grace

\* Mutant: the checks without the ownership check.
ConfirmCheck_AnyOwner(t, hasScore, expiry_score, current_timestamp) ==
    IF ~hasScore \/ expiry_score = 0 THEN "invalid"
    ELSE IF ConfirmExpired(current_timestamp, expiry_score, grace_period_seconds)
         THEN "expired"
    ELSE "ok"

\* The checks between the GET and MULTI, in the order of the code.
ConfirmCheck(t, hasScore, expiry_score, current_timestamp) ==
    IF ~hasScore \/ expiry_score = 0 THEN "invalid"
    ELSE IF ConfirmExpired(current_timestamp, expiry_score, grace_period_seconds)
         THEN "expired"
    ELSE IF t.data.user_id # t.user THEN "wrong_owner"
    ELSE "ok"

\* expiry_score = pipe.zscore(...); current_timestamp = time.time(); the
\* expiry and ownership checks; pipe.multi()
ConfirmZscore(p) ==
    /\ task[p].pc = "cf_zscore"
    /\ LET rid == task[p].rid
           verdict == ConfirmCheck(task[p], Indexed(rid),
                                   IF Indexed(rid) THEN index[rid] ELSE 0, now) IN
       task' = [task EXCEPT ![p] =
                   IF verdict = "ok" THEN [@ EXCEPT !.pc = "cf_exec"]
                   ELSE ConfirmReturn(@, verdict)]
    /\ UNCHANGED <<now, tzOffset, orderTable, streams, stores, nextId, history>>

\* Mutant: the transaction removes the index entry and leaves the blob.
ConfirmExec_BlobKept(p) ==
    /\ task[p].pc = "cf_exec"
    /\ LET rid == task[p].rid IN
       IF task[p].dirty
       THEN /\ task' = [task EXCEPT ![p] = ConfirmReturn(@, "watch_error")]
            /\ UNCHANGED <<index, confirmed>>
       ELSE /\ index' = Remove(index, rid)
            /\ confirmed' = confirmed \cup {rid}
            /\ task' = [Touched(task, Indexed(rid), {})
                          EXCEPT ![p] = ConfirmReturn(task[p], "ok")]
    /\ UNCHANGED <<now, tzOffset, orderTable, streams, stock, ledger, idem, rate, audit, nextId,
                   issued, setValue, restored, responses, admitted>>

\* Mutant: the transaction removes the blob and leaves the index entry.
ConfirmExec_IndexKept(p) ==
    /\ task[p].pc = "cf_exec"
    /\ LET rid == task[p].rid IN
       IF task[p].dirty
       THEN /\ task' = [task EXCEPT ![p] = ConfirmReturn(@, "watch_error")]
            /\ UNCHANGED <<ledger, confirmed>>
       ELSE /\ ledger' = Remove(ledger, rid)
            /\ confirmed' = confirmed \cup {rid}
            /\ task' = [Touched(task, FALSE, IF Exists(rid) THEN {rid} ELSE {})
                          EXCEPT ![p] = ConfirmReturn(task[p], "ok")]
    /\ UNCHANGED <<now, tzOffset, orderTable, streams, stock, index, idem, rate, audit, nextId,
                   issued, setValue, restored, responses, admitted>>

\* Mutant: a successful confirm also runs the restore script.
ConfirmExec_Restoring(p) ==
    /\ task[p].pc = "cf_exec"
    /\ LET rid == task[p].rid IN
       IF task[p].dirty
       THEN /\ task' = [task EXCEPT ![p] = ConfirmReturn(@, "watch_error")]
            /\ UNCHANGED <<stock, ledger, index, confirmed>>
       ELSE /\ ledger' = Remove(ledger, rid)
            /\ index' = Remove(index, rid)
            /\ confirmed' = confirmed \cup {rid}
            /\ stock' = [stock EXCEPT ![task[p].data.sku] =
                             RestoreScript(@, task[p].data.quantity)]
            /\ task' = [Touched(task, Indexed(rid), IF Exists(rid) THEN {rid} ELSE {})
                          EXCEPT ![p] = ConfirmReturn(task[p], "ok")]
    /\ UNCHANGED <<now, tzOffset, orderTable, streams, idem, rate, audit, nextId,
                   issued, setValue, restored, responses, admitted>>

\* Mutant: the transaction is never executed, yet the reservation is returned.
ConfirmExec_Dry(p) ==
    /\ task[p].pc = "cf_exec"
    /\ task' = [task EXCEPT ![p] = ConfirmReturn(@, "ok")]
    /\ confirmed' = confirmed \cup {task[p].rid}
    /\ UNCHANGED <<now, tzOffset, orderTable, streams, stock, ledger, index, idem, rate, audit, nextId,
                   issued, setValue, restored, responses, admitted>>

\* Mutant: the transaction without WATCH, so EXEC always runs.
ConfirmExec_Unwatched(p) ==
    /\ task[p].pc = "cf_exec"
    /\ LET rid == task[p].rid IN
       /\ ledger' = Remove(ledger, rid)
       /\ index' = Remove(index, rid)
       /\ confirmed' = confirmed \cup {rid}
       /\ task' = [task EXCEPT ![p] = ConfirmReturn(task[p], "ok")]
    /\ UNCHANGED <<now, tzOffset, orderTable, streams, stock, idem, rate, audit, nextId,
                   issued, setValue, restored, responses, admitted>>

\* pipe.delete(reservation_key); pipe.zrem(...); pipe.execute(): EXEC runs the
\* two commands unless a watched key changed, and then raises WatchError.
ConfirmExec(p) ==
    /\ task[p].pc = "cf_exec"
    /\ LET rid == task[p].rid IN
       IF task[p].dirty
       THEN /\ task' = [task EXCEPT ![p] = ConfirmReturn(@, "watch_error")]
            /\ UNCHANGED <<ledger, index, confirmed>>
       ELSE /\ ledger' = Remove(ledger, rid)
            /\ index' = Remove(index, rid)
            /\ confirmed' = confirmed \cup {rid}
            /\ task' = [Touched(task, Indexed(rid), IF Exists(rid) THEN {rid} ELSE {})
                          EXCEPT ![p] = ConfirmReturn(task[p], "ok")]
    /\ UNCHANGED <<now, tzOffset, orderTable, streams, stock, idem, rate, audit, nextId,
                   issued, setValue, restored, responses, admitted>>

(***************************************************************************)
(* POST /api/v1/checkout/confirm: a pending order row, confirm_reservation, *)
(* then the row is marked confirmed or failed.  The orders table has no     *)
(* reservation column (the audit row links the two); the rid kept in a row  *)
(* here records which request wrote it.                                     *)
(***************************************************************************)
\* late: some order of this reservation is already confirmed when the request arrives.
StartConfirmRoute(p, rid, u) ==
    /\ task[p].pc = "idle"
    /\ task' = [task EXCEPT ![p] = [Idle EXCEPT !.op = "confirm", !.pc = "co_get",
                   !.route = TRUE, !.user = u, !.rid = rid,
                   !.late = \E o \in DOMAIN orders :
                               orders[o].rid = rid /\ orders[o].status = "confirmed"]]
    /\ UNCHANGED <<now, tzOffset, orderTable, streams, stores, nextId, history>>

\* Mutant: the pending order is inserted whether or not the blob was found.
CheckoutGet_AlwaysPending(p) ==
    /\ task[p].pc = "co_get"
    /\ task' = [task EXCEPT ![p] =
                   [@ EXCEPT !.pc = "co_pending",
                             !.pre = IF Exists(task[p].rid) THEN ledger[task[p].rid]
                                     ELSE NoBlob]]
    /\ UNCHANGED <<now, tzOffset, orderTable, streams, stores, nextId, history>>

\* reservation_data = reservation_service.get_reservation(payload.reservation_id)
CheckoutGet(p) ==
    /\ task[p].pc = "co_get"
    /\ task' = [task EXCEPT ![p] =
                   IF Exists(task[p].rid)
                   THEN [@ EXCEPT !.pc = "co_pending", !.pre = ledger[task[p].rid]]
                   ELSE [@ EXCEPT !.pc = "cf_watch"]]
    /\ UNCHANGED <<now, tzOffset, orderTable, streams, stores, nextId, history>>

\* Mutant: the order row is inserted as confirmed.
CheckoutPending_Confirmed(p) ==
    /\ task[p].pc = "co_pending"
    /\ orders' = (nextOrder :> [user_id |-> task[p].user, status |-> "confirmed",
                                quantity |-> task[p].pre.quantity, rid |-> task[p].rid])
                     @@ orders
    /\ nextOrder' = nextOrder + 1
    /\ task' = [task EXCEPT ![p].pc = "cf_watch", ![p].order = nextOrder]
    /\ UNCHANGED <<now, tzOffset, streams, stores, nextId, history>>

\* db.add(Order(order_id, user_id=current_user, status="pending", ...)); db.commit()
CheckoutPending(p) ==
    /\ task[p].pc = "co_pending"
    /\ orders' = (nextOrder :> [user_id |-> task[p].user, status |-> "pending",
                                quantity |-> task[p].pre.quantity, rid |-> task[p].rid])
                     @@ orders
    /\ nextOrder' = nextOrder + 1
    /\ task' = [task EXCEPT ![p].pc = "cf_watch", ![p].order = nextOrder]
    /\ UNCHANGED <<now, tzOffset, streams, stores, nextId, history>>

\* Mutant: the error is surfaced without marking the order row.
CheckoutFail_RowKept(p) ==
    /\ task[p].pc = "co_fail"
    /\ task' = [task EXCEPT ![p] = Answered(@, CheckoutStatus(@.res))]
    /\ UNCHANGED <<now, tzOffset, orderTable, streams, stores, nextId, history>>

\* except Exception: the order row, if one was made, is marked failed; then
\* the HTTPException for the error is raised.
CheckoutFail(p) ==
    /\ task[p].pc = "co_fail"
    /\ orders' = IF task[p].order \in DOMAIN orders
                 THEN [orders EXCEPT ![task[p].order].status = "failed"]
                 ELSE orders
    /\ task' = [task EXCEPT ![p] = Answered(@, CheckoutStatus(@.res))]
    /\ UNCHANGED <<now, tzOffset, streams, nextOrder, stores, nextId, history>>

\* order = db.query(Order)...first(); not order: HTTPException(500);
\* order.status = "confirmed"; OrderItem; AuditLog(event_type="confirm"); db.commit()
CheckoutCommit(p) ==
    /\ task[p].pc = "co_commit"
    /\ IF task[p].order \in DOMAIN orders
       THEN /\ orders' = [orders EXCEPT ![task[p].order].status = "confirmed"]
            /\ audit' = audit \cup {[event_type |-> "confirm", reservation_id |-> task[p].rid,
                                     user_id |-> task[p].user, sku |-> task[p].data.sku,
                                     quantity |-> task[p].data.quantity]}
            /\ task' = [task EXCEPT ![p] = [Answered(@, "200") EXCEPT !.order = task[p].order]]
       ELSE /\ task' = [task EXCEPT ![p] = Answered(@, "500")]
            /\ UNCHANGED <<orders, audit>>
    /\ UNCHANGED <<now, tzOffset, streams, nextOrder, stock, ledger, index, idem, rate, nextId, history>>

\* Mutant: the insert fails after the reservation has been consumed.
PendingFails_Consuming(p) ==
    /\ task[p].pc = "co_pending"
    /\ ledger' = Remove(ledger, task[p].rid)
    /\ index' = Remove(index, task[p].rid)
    /\ task' = [task EXCEPT ![p] = [Answered(@, "500") EXCEPT !.pre = task[p].pre]]
    /\ UNCHANGED <<now, tzOffset, orderTable, streams, stock, idem, rate, audit, nextId, history>>

\* db.commit() of the pending row raises: the outer "except Exception" rolls
\* back and answers 500 before confirm_reservation is called.  The answer
\* keeps the reservation the request had looked up (pre).
PendingFails(p) ==
    /\ task[p].pc = "co_pending"
    /\ task' = [task EXCEPT ![p] = [Answered(@, "500") EXCEPT !.pre = task[p].pre]]
    /\ UNCHANGED <<now, tzOffset, orderTable, streams, stores, nextId, history>>

\* db.commit() of the finalising transaction raises: "except Exception" rolls
\* the session back (the row keeps the status last committed) and answers 500.
CommitFails(p) ==
    /\ task[p].pc = "co_commit"
    /\ task[p].order \in DOMAIN orders
    /\ task' = [task EXCEPT ![p] = [Answered(@, "500") EXCEPT !.order = task[p].order]]
    /\ UNCHANGED <<now, tzOffset, orderTable, streams, stores, nextId, history>>

(***************************************************************************)
(* ReservationService.cancel_reservation and release_reservation.          *)
(***************************************************************************)
StartCancel(p, rid, u) ==
    /\ task[p].pc = "idle"
    /\ task' = [task EXCEPT ![p] = [Idle EXCEPT !.op = "cancel", !.pc = "ca_get",
                   !.user = u, !.rid = rid]]
    /\ UNCHANGED <<now, tzOffset, orderTable, streams, stores, nextId, history>>

\* A direct call of release_reservation, as the expiry worker and the tests make.
StartRelease(p, rid) ==
    /\ task[p].pc = "idle"
    /\ task' = [task EXCEPT ![p] = [Idle EXCEPT !.op = "release", !.pc = "rel_get",
                   !.rid = rid]]
    /\ UNCHANGED <<now, tzOffset, orderTable, streams, stores, nextId, history>>

\* POST /api/v1/checkout/cancel arrives: cancel_checkout calls cancel_reservation.
StartCancelRoute(p, rid, u) ==
    /\ task[p].pc = "idle"
    /\ task' = [task EXCEPT ![p] = [Idle EXCEPT !.op = "cancel", !.pc = "ca_get",
                   !.route = TRUE, !.user = u, !.rid = rid]]
    /\ UNCHANGED <<now, tzOffset, orderTable, streams, stores, nextId, history>>

\* What the caller of cancel gets: the service's result, or the status
\* cancel_checkout makes of it (True: 200 with CancelCheckoutResponse;
\* False: 404; "another user": 403).  cancel_checkout sends nothing to
\* manager.
CancelResult(t, result) ==
    IF ~t.route THEN result
    ELSE IF result = "true" THEN "200"
    ELSE IF result = "false" THEN "404"
    ELSE "403"

\* Mutant: cancel without the ownership check.
CancelGet_AnyOwner(p) ==
    /\ task[p].pc = "ca_get"
    /\ task' = [task EXCEPT ![p] =
                   IF ~Exists(task[p].rid) THEN Raised(@, "false")
                   ELSE [@ EXCEPT !.pc = "rel_get"]]
    /\ UNCHANGED <<now, tzOffset, orderTable, streams, stores, nextId, history>>

\* data = redis.get(reservation_key); not data: return False; another user's:
\* raise ValueError; else return self.release_reservation(reservation_id)
CancelGet(p) ==
    /\ task[p].pc = "ca_get"
    /\ task' = [task EXCEPT ![p] =
                   IF ~Exists(task[p].rid) THEN Raised(@, CancelResult(@, "false"))
                   ELSE IF ledger[task[p].rid].user_id # task[p].user
                        THEN Raised(@, CancelResult(@, "wrong_owner"))
                   ELSE [@ EXCEPT !.pc = "rel_get"]]
    /\ UNCHANGED <<now, tzOffset, orderTable, streams, stores, nextId, history>>

\* The expiry worker's loop moves to the next id of its snapshot, or ends the tick.
SweepAdvance(t) ==
    IF Len(t.snap) <= 1 THEN Idle
    ELSE [Idle EXCEPT !.op = "sweep", !.pc = "sw_get", !.snap = Tail(t.snap),
                      !.rid = Head(Tail(t.snap))]

\* Mutant: the worker goes on to the next id without writing the audit row.
Released_Unaudited(t, result) ==
    IF t.op = "sweep" THEN SweepAdvance(t)
    ELSE Raised(t, IF result THEN "true" ELSE "false")

\* release_reservation returns to cancel_reservation's caller or to the worker.
Released(t, result) ==
    IF t.op = "sweep"
    THEN IF result /\ t.pre # NoBlob THEN [t EXCEPT !.pc = "sw_audit", !.data = NoBlob]
         ELSE SweepAdvance(t)
    ELSE Raised(t, CancelResult(t, IF result THEN "true" ELSE "false"))

\* data = self.redis.get(reservation_key)
ReleaseGet(p) ==
    /\ task[p].pc = "rel_get"
    /\ task' = [task EXCEPT ![p] =
                   IF Exists(task[p].rid)
                   THEN [@ EXCEPT !.pc = "rel_restore", !.data = ledger[task[p].rid]]
                   ELSE [@ EXCEPT !.pc = "rel_gone"]]
    /\ UNCHANGED <<now, tzOffset, orderTable, streams, stores, nextId, history>>

\* not data: self.redis.zrem("expiring_reservations", reservation_id); return False
ReleaseGone(p) ==
    /\ task[p].pc = "rel_gone"
    /\ index' = Remove(index, task[p].rid)
    /\ task' = [Touched(task, Indexed(task[p].rid), {}) EXCEPT
                   ![p] = Released(task[p], FALSE)]
    /\ UNCHANGED <<now, tzOffset, orderTable, streams, stock, ledger, idem, rate, audit, nextId, history>>

\* self.restore_script(keys=[inventory_key], args=[reservation.quantity])
ReleaseRestore(p) ==
    /\ task[p].pc = "rel_restore"
    /\ LET d == task[p].data IN
       stock' = [stock EXCEPT ![d.sku] = RestoreScript(@, d.quantity)]
    /\ restored' = [restored EXCEPT ![task[p].rid] = @ + 1]
    /\ task' = [task EXCEPT ![p].pc = "rel_del"]
    /\ UNCHANGED <<now, tzOffset, orderTable, streams, ledger, index, idem, rate, audit, nextId,
                   issued, setValue, confirmed, responses, admitted>>

\* Mutant: release leaves the blob in place.
ReleaseDelete_Kept(p) ==
    /\ task[p].pc = "rel_del"
    /\ task' = [task EXCEPT ![p].pc = "rel_zrem"]
    /\ UNCHANGED <<now, tzOffset, orderTable, streams, stores, nextId, history>>

\* self.redis.delete(reservation_key)
ReleaseDelete(p) ==
    /\ task[p].pc = "rel_del"
    /\ ledger' = Remove(ledger, task[p].rid)
    /\ task' = [Touched(task, FALSE, IF Exists(task[p].rid) THEN {task[p].rid} ELSE {})
                   EXCEPT ![p].pc = "rel_zrem"]
    /\ UNCHANGED <<now, tzOffset, orderTable, streams, stock, index, idem, rate, audit, nextId, history>>

\* Mutant: release returns without removing the index entry.
ReleaseZrem_Forgotten(p) ==
    /\ task[p].pc = "rel_zrem"
    /\ task' = [task EXCEPT ![p] = Released(task[p], TRUE)]
    /\ UNCHANGED <<now, tzOffset, orderTable, streams, stores, nextId, history>>

\* self.redis.zrem("expiring_reservations", reservation_id); return True
ReleaseZrem(p) ==
    /\ task[p].pc = "rel_zrem"
    /\ index' = Remove(index, task[p].rid)
    /\ task' = [Touched(task, Indexed(task[p].rid), {}) EXCEPT
                   ![p] = Released(task[p], TRUE)]
    /\ UNCHANGED <<now, tzOffset, orderTable, streams, stock, ledger, idem, rate, audit, nextId, history>>

(***************************************************************************)
(* Expiry worker: one call of release_expired_reservations.                *)
(***************************************************************************)
\* redis.zrangebyscore("expiring_reservations", 0, now): ascending by score,
\* members of equal score in order of id.
RECURSIVE Ascending(_)
Ascending(S) ==
    IF S = {} THEN <<>>
    ELSE LET m == CHOOSE x \in S : \A y \in S :
                      \/ index[x] < index[y]
                      \/ index[x] = index[y] /\ x <= y
         IN <<m>> \o Ascending(S \ {m})

ZRangeByScore(lo, hi) == Ascending({r \in DOMAIN index : lo <= index[r] /\ index[r] <= hi})

\* now = time.time(); expired = redis.zrangebyscore(...); nothing due: return
SweepSnapshot(p) ==
    /\ task[p].pc = "idle"
    /\ LET expired == ZRangeByScore(0, now) IN
       /\ expired # <<>>
       /\ task' = [task EXCEPT ![p] = [Idle EXCEPT !.op = "sweep", !.pc = "sw_get",
                      !.snap = expired, !.rid = Head(expired)]]
    /\ UNCHANGED <<now, tzOffset, orderTable, streams, stores, nextId, history>>

\* reservation = service.get_reservation(reservation_id);
\* released = service.release_reservation(reservation_id)
SweepGet(p) ==
    /\ task[p].pc = "sw_get"
    /\ task' = [task EXCEPT ![p].pc = "rel_get",
                   ![p].pre = IF Exists(task[p].rid) THEN ledger[task[p].rid] ELSE NoBlob]
    /\ UNCHANGED <<now, tzOffset, orderTable, streams, stores, nextId, history>>

\* released and reservation: db.add(AuditLog(event_type="expire", ...)); db.commit()
SweepAudit(p) ==
    /\ task[p].pc = "sw_audit"
    /\ audit' = audit \cup {[event_type |-> "expire", reservation_id |-> task[p].rid,
                             user_id |-> task[p].pre.user_id, sku |-> task[p].pre.sku,
                             quantity |-> task[p].pre.quantity]}
    /\ task' = [task EXCEPT ![p] = SweepAdvance(task[p])]
    /\ UNCHANGED <<now, tzOffset, orderTable, streams, stock, ledger, index, idem, rate, nextId, history>>

\* Mutant: an exception for one id ends the tick.
SweepFails_Aborting(p) ==
    /\ task[p].op = "sweep"
    /\ task[p].pc \in {"sw_get", "rel_get", "rel_gone", "rel_restore", "rel_del",
                       "rel_zrem", "sw_audit"}
    /\ restored[task[p].rid] < MaxRestores
    /\ task' = [task EXCEPT ![p] = Idle]
    /\ UNCHANGED <<now, tzOffset, orderTable, streams, stores, nextId, history>>

\* A command of the worker for one id raises (Redis in the lookup or in the
\* release, the database in the commit of the audit row):
\* except Exception: logger.error(...); db.rollback(), and the loop goes on.
\* res = "error": the tick has logged an error for an earlier id.  Commands
\* fail while the id's quantity has been put back fewer than MaxRestores times.
SweepFails(p) ==
    /\ task[p].op = "sweep"
    /\ task[p].pc \in {"sw_get", "rel_get", "rel_gone", "rel_restore", "rel_del",
                       "rel_zrem", "sw_audit"}
    /\ restored[task[p].rid] < MaxRestores
    /\ task' = [task EXCEPT ![p] =
                   IF SweepAdvance(@) = Idle THEN Idle
                   ELSE [SweepAdvance(@) EXCEPT !.res = "error"]]
    /\ UNCHANGED <<now, tzOffset, orderTable, streams, stores, nextId, history>>

(***************************************************************************)
(* Time.  Redis drops a key when its expiry is reached.                    *)
(***************************************************************************)
Expired(exp, t) == exp # 0 /\ exp <= t

TickTo(limit) ==
    /\ now < limit
    /\ now' = now + 1
    /\ rate' = [u \in Users |-> IF Expired(rate[u].exp, now + 1) THEN NoRate ELSE rate[u]]
    /\ admitted' = [u \in Users |-> IF Expired(rate[u].exp, now + 1) THEN 0 ELSE admitted[u]]
    /\ idem' = [k \in Keys |-> IF Expired(idem[k].exp, now + 1) THEN NoIdem ELSE idem[k]]
    /\ UNCHANGED <<tzOffset, orderTable, streams, stock, ledger, index, audit, nextId, task,
                   issued, setValue, confirmed, restored, responses>>

\* No task runs until the clock shows limit.
JumpTo(limit) ==
    /\ now < limit
    /\ now' = limit
    /\ rate' = [u \in Users |-> IF Expired(rate[u].exp, limit) THEN NoRate ELSE rate[u]]
    /\ admitted' = [u \in Users |-> IF Expired(rate[u].exp, limit) THEN 0 ELSE admitted[u]]
    /\ idem' = [k \in Keys |-> IF Expired(idem[k].exp, limit) THEN NoIdem ELSE idem[k]]
    /\ UNCHANGED <<tzOffset, orderTable, streams, stock, ledger, index, audit, nextId, task,
                   issued, setValue, confirmed, restored, responses>>

(***************************************************************************)
(* The race of the concurrency tests: tasks 1..NumRacers each call reserve *)
(* once, all with the same quantity, against one sku, and nothing else     *)
(* touches it.                                                             *)
(***************************************************************************)
RaceInit == InitWith(1..NumRacers, {"A"}, {0}, MaxStock)

RaceStart(p) ==
    \E u \in Users, q \in Quantities :
        /\ \A o \in Tasks : task[o].op = "reserve" => task[o].quantity = q
        /\ StartReserve(p, u, "A", q, NoKey)

RaceNext ==
    \/ \E p \in Tasks : RaceStart(p)
    \/ \E p \in Tasks : ReserveDecrement(p)
    \/ \E p \in Tasks : ReserveInsufficient(p)
    \/ \E p \in Tasks : ReserveSetBlob(p)
    \/ \E p \in Tasks : ReserveZadd(p)

SpecRace == RaceInit /\ [][RaceNext]_vars

(***************************************************************************)
(* The service under concurrent callers: two operations are in flight at a *)
(* time, each a reserve, a confirm or a cancel with any arguments or a     *)
(* tick of the expiry worker, while the clock advances.                    *)
(***************************************************************************)
Slots == {1, 2}
Owners == {"u1"}

Init == InitWith(Slots, {"A"}, {0}, MaxStock)

CallReserve(p) ==
    \E u \in Owners, q \in Quantities : StartReserve(p, u, "A", q, NoKey)

\* The script runs; it may succeed while ids are left within the bound.
Decrement(p, limit) ==
    /\ task[p].pc = "script"
    /\ ReserveScript(stock[task[p].sku], task[p].quantity).ok = 1 => IdsLeft(limit)
    /\ ReserveDecrement(p)

CallConfirm(p) == \E r \in issued, u \in Users : StartConfirm(p, r, u)

CallCancel(p) == \E r \in issued, u \in Users : StartCancel(p, r, u)

Next ==
    \/ TickTo(MaxTime)
    \/ \E p \in Tasks : CallReserve(p)
    \/ \E p \in Tasks : CallConfirm(p)
    \/ \E p \in Tasks : CallCancel(p)
    \/ \E p \in Tasks : SweepSnapshot(p)
    \/ \E p \in Tasks : Finish(p)
    \/ \E p \in Tasks : Decrement(p, MaxRes)
    \/ \E p \in Tasks : ReserveInsufficient(p)
    \/ \E p \in Tasks : ReserveSetBlob(p)
    \/ \E p \in Tasks : ReserveZadd(p)
    \/ \E p \in Tasks : ConfirmWatchGet(p)
    \/ \E p \in Tasks : ConfirmZscore(p)
    \/ \E p \in Tasks : ConfirmExec(p)
    \/ \E p \in Tasks : CancelGet(p)
    \/ \E p \in Tasks : ReleaseGet(p)
    \/ \E p \in Tasks : ReleaseGone(p)
    \/ \E p \in Tasks : ReleaseRestore(p)
    \/ \E p \in Tasks : ReleaseDelete(p)
    \/ \E p \in Tasks : ReleaseZrem(p)
    \/ \E p \in Tasks : SweepGet(p)
    \/ \E p \in Tasks : SweepAudit(p)

Spec == Init /\ [][Next]_vars

(***************************************************************************)
(* reserve_inventory under concurrent callers that pass one idempotency    *)
(* key: two calls are in flight at a time, while the clock advances.       *)
(***************************************************************************)
IdemInit == InitWith(Slots, {"A"}, {0}, MaxKeyedStock)

CallReserveKeyed(p) ==
    \E u \in Owners, q \in Quantities, k \in Keys : StartReserve(p, u, "A", q, k)

IdemNext ==
    \/ TickTo(MaxTime)
    \/ \E p \in Tasks : CallReserveKeyed(p)
    \/ \E p \in Tasks : Finish(p)
    \/ \E p \in Tasks : IdemGet(p)
    \/ \E p \in Tasks : Decrement(p, MaxKeyedRes)
    \/ \E p \in Tasks : ReserveInsufficient(p)
    \/ \E p \in Tasks : ReserveSetBlob(p)
    \/ \E p \in Tasks : ReserveZadd(p)
    \/ \E p \in Tasks : ReserveIdemSetex(p)

SpecIdem == IdemInit /\ [][IdemNext]_vars

(***************************************************************************)
(* ConnectionManager and the websocket endpoint /ws/inventory/{sku}.       *)
(* Every await is a point where another task of the event loop may run.    *)
(***************************************************************************)
\* The times the availability of sku s has been changed by a reserve that
\* returned or by a release that restored stock.
Changes(s) ==
    LET made == {x \in responses : ~x.hit /\ x.sku = s} IN
    Cardinality(made) + Sum(restored, {r \in DOMAIN restored : \E x \in made : x.rid = r})

\* The list without its first occurrence of c: list.remove(c).
RECURSIVE ListRemove(_, _)
ListRemove(list, c) ==
    IF list = <<>> THEN <<>>
    ELSE IF Head(list) = c THEN Tail(list)
    ELSE <<Head(list)>> \o ListRemove(Tail(list), c)

InList(list, c) == \E i \in 1..Len(list) : list[i] = c

\* connect: if sku not in self.active_connections: ... = []; then append.
Connected(reg, c, s) ==
    IF reg[s].present
    THEN [reg EXCEPT ![s].list = Append(@, c)]
    ELSE [reg EXCEPT ![s] = [present |-> TRUE, gen |-> reg[s].gen + 1, list |-> <<c>>]]

\* disconnect: remove the websocket if it is in the sku's list; delete the
\* key when the list is left empty.
Disconnected(reg, c, s) ==
    IF ~reg[s].present THEN reg
    ELSE LET rest == IF InList(reg[s].list, c) THEN ListRemove(reg[s].list, c)
                     ELSE reg[s].list IN
         IF rest = <<>> THEN [reg EXCEPT ![s].present = FALSE, ![s].list = <<>>]
         ELSE [reg EXCEPT ![s].list = rest]

RECURSIVE DisconnectedAll(_, _, _)
DisconnectedAll(reg, dead, s) ==
    IF dead = <<>> THEN reg
    ELSE DisconnectedAll(Disconnected(reg, Head(dead), s), Tail(dead), s)

Registered(c) ==
    /\ conn[c].sku \in DOMAIN registry
    /\ registry[conn[c].sku].present
    /\ InList(registry[conn[c].sku].list, c)

\* await manager.connect(websocket, sku): accept, then register.
WsConnect(c, s) ==
    /\ conn[c].at = "new"
    /\ registry' = Connected(registry, c, s)
    /\ conn' = [conn EXCEPT ![c] = [at |-> "joined", sku |-> s, base |-> Changes(s)]]
    /\ UNCHANGED <<now, tzOffset, orderTable, inbox, stores, nextId, task, history>>

\* status = get_inventory_status(sku); await websocket.send_json("initial" ...);
\* then the handler waits in receive_text.
WsInitial(c) ==
    /\ conn[c].at = "joined"
    /\ LET a == stock[conn[c].sku] IN
       inbox' = [inbox EXCEPT ![c] = Append(@,
                    [type |-> "initial", sku |-> conn[c].sku, available |-> a, total |-> a,
                     of |-> 0])]
    /\ conn' = [conn EXCEPT ![c].at = "open"]
    /\ UNCHANGED <<now, tzOffset, orderTable, registry, stores, nextId, task, history>>

\* The client goes away: from now on a send to the websocket raises.
ClientClose(c) ==
    /\ conn[c].at = "open"
    /\ conn' = [conn EXCEPT ![c].at = "closed"]
    /\ UNCHANGED <<now, tzOffset, orderTable, registry, inbox, stores, nextId, task, history>>

\* receive_text raises WebSocketDisconnect: manager.disconnect(websocket, sku).
WsDisconnect(c) ==
    /\ conn[c].at = "closed"
    /\ registry' = Disconnected(registry, c, conn[c].sku)
    /\ conn' = [conn EXCEPT ![c].at = "gone"]
    /\ UNCHANGED <<now, tzOffset, orderTable, inbox, stores, nextId, task, history>>

\* The list object broadcast iterates: the one it fetched, which is empty
\* once its key has been deleted.
Iterated(t) ==
    IF registry[t.sku].present /\ registry[t.sku].gen = t.gen
    THEN registry[t.sku].list ELSE <<>>

\* One pass of the loop of broadcast on connection c:
\* try: await connection.send_json(message); except: disconnected.append(connection)
Pass(t, c) ==
    IF conn[c].at = "closed"
    THEN [t EXCEPT !.cur = @ + 1, !.dead = Append(@, c)]
    ELSE [t EXCEPT !.cur = @ + 1]

Delivered(box, c, m) ==
    IF conn[c].at = "closed" THEN box ELSE [box EXCEPT ![c] = Append(@, m)]

\* The reserve route after its response is built:
\* status = get_inventory_status(sku), then manager.broadcast(sku, update)
\* up to the await of its first send; a sku without a key gets no broadcast.
\* The message is tagged with the reservation whose request sends it (of),
\* and snap keeps the connections registered when the broadcast started.
BroadcastStatus(p) ==
    /\ task[p].pc = "bc_status"
    /\ LET s == task[p].sku
           a == stock[s]
           m == [type |-> "update", sku |-> s, available |-> a, total |-> a,
                 of |-> task[p].out.rid] IN
       IF registry[s].present
       THEN LET list == registry[s].list
                t == [task[p] EXCEPT !.pc = "bc_send", !.msg = m, !.cur = 1,
                                     !.gen = registry[s].gen, !.dead = <<>>,
                                     !.snap = list] IN
            /\ task' = [task EXCEPT ![p] = Pass(t, list[1])]
            /\ inbox' = Delivered(inbox, list[1], m)
       ELSE /\ task' = [task EXCEPT ![p].pc = "done", ![p].msg = m]
            /\ UNCHANGED inbox
    /\ UNCHANGED <<now, tzOffset, orderTable, registry, conn, stores, nextId, history>>

\* The broadcast resumes after a send: the next pass of
\* for connection in self.active_connections[sku], or the end of the loop:
\* disconnect every connection on disconnected, and the route returns its
\* response.
BroadcastSend(p) ==
    /\ task[p].pc = "bc_send"
    /\ LET list == Iterated(task[p]) IN
       IF task[p].cur <= Len(list)
       THEN /\ task' = [task EXCEPT ![p] = Pass(@, list[task[p].cur])]
            /\ inbox' = Delivered(inbox, list[task[p].cur], task[p].msg)
            /\ UNCHANGED registry
       ELSE /\ registry' = DisconnectedAll(registry, task[p].dead, task[p].sku)
            /\ task' = [task EXCEPT ![p].pc = "done", ![p].cur = 0, ![p].gen = 0,
                                    ![p].dead = <<>>, ![p].snap = <<>>]
            /\ UNCHANGED inbox
    /\ UNCHANGED <<now, tzOffset, orderTable, conn, stores, nextId, history>>

(***************************************************************************)
(* The administrative path and the status read.                            *)
(***************************************************************************)
\* POST /api/v1/inventory/{sku}/initialize?quantity=q, quantity: int with no
\* bound: set_inventory(sku, quantity), then manager.broadcast of an update
\* with available = total = quantity, up to the await of its first send.
InitializeInventory(p, s, q) ==
    /\ task[p].pc = "idle"
    /\ stock' = [stock EXCEPT ![s] = q]
    /\ setValue' = [setValue EXCEPT ![s] = q]
    /\ LET m == [type |-> "update", sku |-> s, available |-> q, total |-> q, of |-> 0]
           t == [Idle EXCEPT !.op = "initialize", !.route = TRUE, !.sku = s,
                             !.quantity = q, !.res = "201", !.msg = m] IN
       IF registry[s].present
       THEN LET list == registry[s].list
                b == [t EXCEPT !.pc = "bc_send", !.cur = 1, !.gen = registry[s].gen,
                               !.snap = list] IN
            /\ task' = [task EXCEPT ![p] = Pass(b, list[1])]
            /\ inbox' = Delivered(inbox, list[1], m)
       ELSE /\ task' = [task EXCEPT ![p] = [t EXCEPT !.pc = "done"]]
            /\ UNCHANGED inbox
    /\ UNCHANGED <<now, tzOffset, orderTable, registry, conn, ledger, index, idem, rate,
                   audit, nextId, issued, confirmed, restored, responses, admitted>>

\* GET /api/v1/inventory/{sku}: get_inventory_status reads
\* available = int(redis.get(inventory_key) or 0) and answers it.
GetInventoryStatus(p, s) ==
    /\ task[p].pc = "idle"
    /\ task' = [task EXCEPT ![p] =
                   [Idle EXCEPT !.op = "status", !.pc = "done", !.route = TRUE, !.sku = s,
                                !.res = "200", !.out = [NoOut EXCEPT !.available = stock[s]]]]
    /\ UNCHANGED <<now, tzOffset, orderTable, streams, stores, nextId, history>>

(***************************************************************************)
(* The limiter under concurrent requests of one principal, within one      *)
(* window: two requests without idempotency key are in flight at a time.   *)
(***************************************************************************)
LimitInit == InitWith(Slots, {"A"}, {0}, MaxStock)

PostReserve(p) ==
    \E u \in Owners, q \in Quantities : StartReserveRoute(p, u, "A", q, NoKey)

LimitNext ==
    \/ \E p \in Tasks : PostReserve(p)
    \/ \E p \in Tasks : Finish(p)
    \/ \E p \in Tasks : RLGet(p)
    \/ \E p \in Tasks : RLSetex(p)
    \/ \E p \in Tasks : RLReject(p)
    \/ \E p \in Tasks : RLIncr(p)
    \/ \E p \in Tasks : Decrement(p, MaxRes)
    \/ \E p \in Tasks : ReserveInsufficient(p)
    \/ \E p \in Tasks : ReserveSetBlob(p)
    \/ \E p \in Tasks : ReserveZadd(p)
    \/ \E p \in Tasks : BroadcastStatus(p)

SpecLimit == LimitInit /\ [][LimitNext]_vars

(***************************************************************************)
(* The checkout route under concurrent requests: reserves through the      *)
(* service and POST /checkout/confirm of any issued reservation by any     *)
(* principal, two at a time, while the clock advances.                     *)
(***************************************************************************)
CheckoutInit == InitWith(Slots, {"A"}, {0}, MaxStock)

PostConfirm(p) == \E r \in issued, u \in Users : StartConfirmRoute(p, r, u)

\* A pending row may be inserted while fewer than limit rows exist or are
\* about to (the bound on the order ids of one behaviour).
OrdersLeft(limit) ==
    nextOrder + Cardinality({p \in Tasks : task[p].pc = "co_pending"}) <= limit

CheckoutLookup(p, limit) ==
    /\ task[p].pc = "co_get"
    /\ Exists(task[p].rid) => OrdersLeft(limit)
    /\ CheckoutGet(p)

CheckoutNext ==
    \/ TickTo(MaxTime)
    \/ \E p \in Tasks : CallReserve(p)
    \/ \E p \in Tasks : PostConfirm(p)
    \/ \E p \in Tasks : Finish(p)
    \/ \E p \in Tasks : Decrement(p, MaxRes)
    \/ \E p \in Tasks : ReserveInsufficient(p)
    \/ \E p \in Tasks : ReserveSetBlob(p)
    \/ \E p \in Tasks : ReserveZadd(p)
    \/ \E p \in Tasks : CheckoutLookup(p, MaxOrders)
    \/ \E p \in Tasks : CheckoutPending(p)
    \/ \E p \in Tasks : ConfirmWatchGet(p)
    \/ \E p \in Tasks : ConfirmZscore(p)
    \/ \E p \in Tasks : ConfirmExec(p)
    \/ \E p \in Tasks : CheckoutFail(p)
    \/ \E p \in Tasks : CheckoutCommit(p)

SpecCheckout == CheckoutInit /\ [][CheckoutNext]_vars

(***************************************************************************)
(* The expiry worker's loop beside a caller that reserves: task 1 calls    *)
(* reserve_inventory, task 2 is the worker, which runs                     *)
(* release_expired_reservations again and again (main: while True).  No    *)
(* reservation is confirmed or cancelled, so release_reservation always    *)
(* finds the blob it was sent for.                                         *)
(***************************************************************************)
Caller == 1
Worker == 2

SweepInit == InitWith({Caller, Worker}, {"A"}, {0}, MaxLive)

\* One step of the worker: the start of a tick or the next command of one.
SweepLoop ==
    \/ SweepSnapshot(Worker)
    \/ SweepGet(Worker)
    \/ ReleaseGet(Worker)
    \/ ReleaseRestore(Worker)
    \/ ReleaseDelete(Worker)
    \/ ReleaseZrem(Worker)
    \/ SweepAudit(Worker)

SweepNext ==
    \/ TickTo(MaxTime)
    \/ CallReserve(Caller)
    \/ Finish(Caller)
    \/ Decrement(Caller, MaxLive)
    \/ ReserveInsufficient(Caller)
    \/ ReserveSetBlob(Caller)
    \/ ReserveZadd(Caller)
    \/ SweepSnapshot(Worker)
    \/ SweepGet(Worker)
    \/ ReleaseGet(Worker)
    \/ ReleaseRestore(Worker)
    \/ ReleaseDelete(Worker)
    \/ ReleaseZrem(Worker)
    \/ SweepAudit(Worker)

SpecSweep == SweepInit /\ [][SweepNext]_vars /\ WF_vars(SweepLoop)

(***************************************************************************)
(* The same caller and worker on a host whose local time is not UTC.       *)
(* reserve_inventory takes datetime.utcnow(), a naive datetime, and stores *)
(* expires_at.timestamp() as the score; timestamp() reads a naive datetime *)
(* as local time, so the score is the expiry instant minus the host's UTC  *)
(* offset.  The worker compares scores with time.time().                   *)
(***************************************************************************)
HostOffsets == {0, 1}

ZoneInit == InitWith({Caller, Worker}, {"A"}, HostOffsets, MaxLive)

SpecZone == ZoneInit /\ [][SweepNext]_vars

(***************************************************************************)
(* Several reservations side by side: two callers at a time, each a        *)
(* reserve, a confirm or a cancel of any issued reservation, with stock    *)
(* enough for more than one live reservation.                              *)
(***************************************************************************)
PairInit == InitWith(Slots, {"A"}, {0}, MaxLive)

PairNext ==
    \/ TickTo(MaxTime)
    \/ \E p \in Tasks : CallReserve(p)
    \/ \E p \in Tasks : CallConfirm(p)
    \/ \E p \in Tasks : CallCancel(p)
    \/ \E p \in Tasks : Finish(p)
    \/ \E p \in Tasks : Decrement(p, MaxLive)
    \/ \E p \in Tasks : ReserveInsufficient(p)
    \/ \E p \in Tasks : ReserveSetBlob(p)
    \/ \E p \in Tasks : ReserveZadd(p)
    \/ \E p \in Tasks : ConfirmWatchGet(p)
    \/ \E p \in Tasks : ConfirmZscore(p)
    \/ \E p \in Tasks : ConfirmExec(p)
    \/ \E p \in Tasks : CancelGet(p)
    \/ \E p \in Tasks : ReleaseGet(p)
    \/ \E p \in Tasks : ReleaseGone(p)
    \/ \E p \in Tasks : ReleaseRestore(p)
    \/ \E p \in Tasks : ReleaseDelete(p)
    \/ \E p \in Tasks : ReleaseZrem(p)

SpecPair == PairInit /\ [][PairNext]_vars

(***************************************************************************)
(* One caller at a time: reserve, confirm, cancel and release_reservation  *)
(* called one after the other, while the clock runs past the expiry score  *)
(* plus the grace period of the reservations made.                         *)
(***************************************************************************)
Solo == {1}

\* The first instant at which a reservation made at time 0 is past its grace.
ClockEnd == RESERVATION_TTL_SECONDS + grace_period_seconds + 1

SeqInit == InitWith(Solo, {"A"}, {0}, MaxLive)

CallRelease(p) == \E r \in issued : StartRelease(p, r)

SeqNext ==
    \/ TickTo(ClockEnd)
    \/ \E p \in Tasks : CallReserve(p)
    \/ \E p \in Tasks : CallConfirm(p)
    \/ \E p \in Tasks : CallCancel(p)
    \/ \E p \in Tasks : CallRelease(p)
    \/ \E p \in Tasks : Finish(p)
    \/ \E p \in Tasks : Decrement(p, MaxLive)
    \/ \E p \in Tasks : ReserveInsufficient(p)
    \/ \E p \in Tasks : ReserveSetBlob(p)
    \/ \E p \in Tasks : ReserveZadd(p)
    \/ \E p \in Tasks : ConfirmWatchGet(p)
    \/ \E p \in Tasks : ConfirmZscore(p)
    \/ \E p \in Tasks : ConfirmExec(p)
    \/ \E p \in Tasks : CancelGet(p)
    \/ \E p \in Tasks : ReleaseGet(p)
    \/ \E p \in Tasks : ReleaseGone(p)
    \/ \E p \in Tasks : ReleaseRestore(p)
    \/ \E p \in Tasks : ReleaseDelete(p)
    \/ \E p \in Tasks : ReleaseZrem(p)

SpecSeq == SeqInit /\ [][SeqNext]_vars

(***************************************************************************)
(* A reserve that does not finish.  The caller's reserve may stop for good *)
(* after the script took the stock; otherwise every call runs to its end.  *)
(* The worker's loop keeps running and the clock reaches the expiry of     *)
(* every reservation made before ClockEnd - TTL.                           *)
(***************************************************************************)
CallerRuns ==
    \/ Finish(Caller)
    \/ Decrement(Caller, MaxLive)
    \/ ReserveInsufficient(Caller)
    \/ ReserveSetBlob(Caller)
    \/ ReserveZadd(Caller)

AbandonNext ==
    \/ TickTo(ClockEnd)
    \/ CallReserve(Caller)
    \/ Finish(Caller)
    \/ Decrement(Caller, MaxLive)
    \/ ReserveInsufficient(Caller)
    \/ ReserveSetBlob(Caller)
    \/ ReserveZadd(Caller)
    \/ Abandon(Caller)
    \/ SweepSnapshot(Worker)
    \/ SweepGet(Worker)
    \/ ReleaseGet(Worker)
    \/ ReleaseRestore(Worker)
    \/ ReleaseDelete(Worker)
    \/ ReleaseZrem(Worker)
    \/ SweepAudit(Worker)

SpecAbandon ==
    /\ SweepInit /\ [][AbandonNext]_vars
    /\ WF_vars(SweepLoop) /\ WF_vars(TickTo(ClockEnd)) /\ WF_vars(CallerRuns)

(***************************************************************************)
(* A reserve whose ledger write or index insert fails, beside the worker.  *)
(***************************************************************************)
FaultNext ==
    \/ TickTo(MaxTime)
    \/ CallReserve(Caller)
    \/ Finish(Caller)
    \/ Decrement(Caller, MaxLive)
    \/ ReserveInsufficient(Caller)
    \/ ReserveSetBlob(Caller)
    \/ ReserveZadd(Caller)
    \/ ReserveWriteFails(Caller)
    \/ SweepSnapshot(Worker)
    \/ SweepGet(Worker)
    \/ ReleaseGet(Worker)
    \/ ReleaseRestore(Worker)
    \/ ReleaseDelete(Worker)
    \/ ReleaseZrem(Worker)
    \/ SweepAudit(Worker)

SpecFault == SweepInit /\ [][FaultNext]_vars

(***************************************************************************)
(* The checkout route over the whole life of a reservation: reserves of    *)
(* one unit and POST /checkout/confirm by any principal, two at a time;     *)
(* at some point nothing runs until every reservation made so far is past  *)
(* its expiry score plus the grace period.                                 *)
(***************************************************************************)
CallReserveOne(p) ==
    \E u \in Owners : StartReserve(p, u, "A", MIN_QUANTITY_PER_RESERVE, NoKey)

OrdersNext ==
    \/ JumpTo(ClockEnd)
    \/ \E p \in Tasks : CallReserveOne(p)
    \/ \E p \in Tasks : PostConfirm(p)
    \/ \E p \in Tasks : Finish(p)
    \/ \E p \in Tasks : Decrement(p, MaxRes)
    \/ \E p \in Tasks : ReserveInsufficient(p)
    \/ \E p \in Tasks : ReserveSetBlob(p)
    \/ \E p \in Tasks : ReserveZadd(p)
    \/ \E p \in Tasks : CheckoutLookup(p, MaxOrders)
    \/ \E p \in Tasks : CheckoutPending(p)
    \/ \E p \in Tasks : ConfirmWatchGet(p)
    \/ \E p \in Tasks : ConfirmZscore(p)
    \/ \E p \in Tasks : ConfirmExec(p)
    \/ \E p \in Tasks : CheckoutFail(p)
    \/ \E p \in Tasks : CheckoutCommit(p)

SpecOrders == CheckoutInit /\ [][OrdersNext]_vars

(***************************************************************************)
(* The same, with a relational store whose finalising commit may fail.     *)
(***************************************************************************)
CommitNext ==
    \/ JumpTo(ClockEnd)
    \/ \E p \in Tasks : CallReserveOne(p)
    \/ \E p \in Tasks : PostConfirm(p)
    \/ \E p \in Tasks : Finish(p)
    \/ \E p \in Tasks : Decrement(p, MaxRes)
    \/ \E p \in Tasks : ReserveInsufficient(p)
    \/ \E p \in Tasks : ReserveSetBlob(p)
    \/ \E p \in Tasks : ReserveZadd(p)
    \/ \E p \in Tasks : CheckoutLookup(p, MaxOrders)
    \/ \E p \in Tasks : CheckoutPending(p)
    \/ \E p \in Tasks : ConfirmWatchGet(p)
    \/ \E p \in Tasks : ConfirmZscore(p)
    \/ \E p \in Tasks : ConfirmExec(p)
    \/ \E p \in Tasks : CheckoutFail(p)
    \/ \E p \in Tasks : CheckoutCommit(p)
    \/ \E p \in Tasks : CommitFails(p)

SpecCommit == CheckoutInit /\ [][CommitNext]_vars

(***************************************************************************)
(* The broadcaster: websockets subscribe to the sku while one client posts *)
(* reserves and cancels through the routes and the expiry worker ticks.    *)
(***************************************************************************)
PostCancel(p) == \E r \in issued, u \in Owners : StartCancelRoute(p, r, u)

\* The websockets that subscribe.
Watchers == {"w1"}

StreamNext ==
    \/ TickTo(MaxTime)
    \/ \E c \in Watchers : WsConnect(c, "A")
    \/ \E c \in Watchers : WsInitial(c)
    \/ \E c \in Watchers : ClientClose(c)
    \/ \E c \in Watchers : WsDisconnect(c)
    \/ PostReserve(Caller)
    \/ PostCancel(Caller)
    \/ Finish(Caller)
    \/ RLGet(Caller)
    \/ RLSetex(Caller)
    \/ RLReject(Caller)
    \/ RLIncr(Caller)
    \/ Decrement(Caller, MaxRes)
    \/ ReserveInsufficient(Caller)
    \/ ReserveSetBlob(Caller)
    \/ ReserveZadd(Caller)
    \/ BroadcastStatus(Caller)
    \/ BroadcastSend(Caller)
    \/ CancelGet(Caller)
    \/ SweepSnapshot(Worker)
    \/ SweepGet(Worker)
    \/ \E p \in Tasks : ReleaseGet(p)
    \/ \E p \in Tasks : ReleaseGone(p)
    \/ \E p \in Tasks : ReleaseRestore(p)
    \/ \E p \in Tasks : ReleaseDelete(p)
    \/ \E p \in Tasks : ReleaseZrem(p)
    \/ SweepAudit(Worker)

\* The event loop runs a handler that is ready, and the worker's loop runs.
StreamRuns ==
    \/ \E c \in Watchers : WsInitial(c)
    \/ Finish(Caller) \/ RLGet(Caller) \/ RLSetex(Caller) \/ RLReject(Caller)
    \/ RLIncr(Caller) \/ Decrement(Caller, MaxRes) \/ ReserveInsufficient(Caller)
    \/ ReserveSetBlob(Caller) \/ ReserveZadd(Caller)
    \/ BroadcastStatus(Caller) \/ BroadcastSend(Caller) \/ CancelGet(Caller)
    \/ ReleaseGet(Caller) \/ ReleaseGone(Caller) \/ ReleaseRestore(Caller)
    \/ ReleaseDelete(Caller) \/ ReleaseZrem(Caller)

SpecStream ==
    /\ SweepInit /\ [][StreamNext]_vars
    /\ WF_vars(StreamRuns) /\ WF_vars(SweepLoop)

(***************************************************************************)
(* The registry under concurrency: two websockets come and go while one    *)
(* client posts reserves, each broadcasting after its reserve.             *)
(***************************************************************************)
CastInit == InitWith(Solo, {"A"}, {0}, MaxLive)

CastNext ==
    \/ \E c \in Sockets : WsConnect(c, "A")
    \/ \E c \in Sockets : WsInitial(c)
    \/ \E c \in Sockets : ClientClose(c)
    \/ \E c \in Sockets : WsDisconnect(c)
    \/ \E p \in Tasks : PostReserve(p)
    \/ \E p \in Tasks : Finish(p)
    \/ \E p \in Tasks : RLGet(p)
    \/ \E p \in Tasks : RLSetex(p)
    \/ \E p \in Tasks : RLReject(p)
    \/ \E p \in Tasks : RLIncr(p)
    \/ \E p \in Tasks : Decrement(p, MaxLive)
    \/ \E p \in Tasks : ReserveInsufficient(p)
    \/ \E p \in Tasks : ReserveSetBlob(p)
    \/ \E p \in Tasks : ReserveZadd(p)
    \/ \E p \in Tasks : BroadcastStatus(p)
    \/ \E p \in Tasks : BroadcastSend(p)

SpecCast == CastInit /\ [][CastNext]_vars

(***************************************************************************)
(* The limiter across windows: requests of one principal while the clock   *)
(* runs past the expiry of its counter key.                                *)
(***************************************************************************)
WindowNext ==
    \/ TickTo(window_seconds + 1)
    \/ \E p \in Tasks : PostReserve(p)
    \/ \E p \in Tasks : Finish(p)
    \/ \E p \in Tasks : RLGet(p)
    \/ \E p \in Tasks : RLSetex(p)
    \/ \E p \in Tasks : RLReject(p)
    \/ \E p \in Tasks : RLIncr(p)
    \/ \E p \in Tasks : Decrement(p, MaxRes)
    \/ \E p \in Tasks : ReserveInsufficient(p)
    \/ \E p \in Tasks : ReserveSetBlob(p)
    \/ \E p \in Tasks : ReserveZadd(p)
    \/ \E p \in Tasks : BroadcastStatus(p)

SpecWindow == LimitInit /\ [][WindowNext]_vars

(***************************************************************************)
(* The administrative path next to reserves and cancels: stock is set to   *)
(* any integer the query parameter can carry, and read back.               *)
(***************************************************************************)
AdminQuantities == -1 .. MaxStock

PostInitialize(p) == \E q \in AdminQuantities : InitializeInventory(p, "A", q)

AdminNext ==
    \/ \E p \in Tasks : PostInitialize(p)
    \/ \E p \in Tasks : GetInventoryStatus(p, "A")
    \/ \E p \in Tasks : CallReserve(p)
    \/ \E p \in Tasks : CallCancel(p)
    \/ \E p \in Tasks : Finish(p)
    \/ \E p \in Tasks : Decrement(p, MaxRes)
    \/ \E p \in Tasks : ReserveInsufficient(p)
    \/ \E p \in Tasks : ReserveSetBlob(p)
    \/ \E p \in Tasks : ReserveZadd(p)
    \/ \E p \in Tasks : CancelGet(p)
    \/ \E p \in Tasks : ReleaseGet(p)
    \/ \E p \in Tasks : ReleaseGone(p)
    \/ \E p \in Tasks : ReleaseRestore(p)
    \/ \E p \in Tasks : ReleaseDelete(p)
    \/ \E p \in Tasks : ReleaseZrem(p)

SpecAdmin == Init /\ [][AdminNext]_vars

(***************************************************************************)
(* The expiry worker with commands that fail: any command of the worker    *)
(* for one id may raise.                                                   *)
(***************************************************************************)
TickNext ==
    \/ TickTo(MaxTime)
    \/ CallReserve(Caller)
    \/ Finish(Caller)
    \/ Decrement(Caller, MaxLive)
    \/ ReserveInsufficient(Caller)
    \/ ReserveSetBlob(Caller)
    \/ ReserveZadd(Caller)
    \/ SweepSnapshot(Worker)
    \/ SweepGet(Worker)
    \/ ReleaseGet(Worker)
    \/ ReleaseGone(Worker)
    \/ ReleaseRestore(Worker)
    \/ ReleaseDelete(Worker)
    \/ ReleaseZrem(Worker)
    \/ SweepAudit(Worker)
    \/ SweepFails(Worker)

SpecTick == SweepInit /\ [][TickNext]_vars

(***************************************************************************)
(* The idempotency cache shared by the principals: keyed and unkeyed       *)
(* reserves by any of them, two at a time.                                 *)
(***************************************************************************)
CallReserveAny(p) ==
    \E u \in Users, q \in Quantities, k \in Keys \cup {NoKey} : StartReserve(p, u, "A", q, k)

SharedNext ==
    \/ TickTo(MaxTime)
    \/ \E p \in Tasks : CallReserveAny(p)
    \/ \E p \in Tasks : Finish(p)
    \/ \E p \in Tasks : IdemGet(p)
    \/ \E p \in Tasks : Decrement(p, MaxKeyedRes)
    \/ \E p \in Tasks : ReserveInsufficient(p)
    \/ \E p \in Tasks : ReserveSetBlob(p)
    \/ \E p \in Tasks : ReserveZadd(p)
    \/ \E p \in Tasks : ReserveIdemSetex(p)

SpecShared == IdemInit /\ [][SharedNext]_vars

(***************************************************************************)
(* The reserve route with idempotency keys: requests of one principal go   *)
(* through the limiter, the cache and the reserve, within one window.      *)
(***************************************************************************)
PostReserveKeyed(p) ==
    \E u \in Owners, q \in Quantities, k \in Keys : StartReserveRoute(p, u, "A", q, k)

EchoNext ==
    \/ \E p \in Tasks : PostReserveKeyed(p)
    \/ \E p \in Tasks : Finish(p)
    \/ \E p \in Tasks : RLGet(p)
    \/ \E p \in Tasks : RLSetex(p)
    \/ \E p \in Tasks : RLReject(p)
    \/ \E p \in Tasks : RLIncr(p)
    \/ \E p \in Tasks : IdemGet(p)
    \/ \E p \in Tasks : Decrement(p, MaxKeyedRes)
    \/ \E p \in Tasks : ReserveInsufficient(p)
    \/ \E p \in Tasks : ReserveSetBlob(p)
    \/ \E p \in Tasks : ReserveZadd(p)
    \/ \E p \in Tasks : ReserveIdemSetex(p)
    \/ \E p \in Tasks : BroadcastStatus(p)

SpecEcho == IdemInit /\ [][EchoNext]_vars

(***************************************************************************)
(* The checkout route when the insert of the pending row can fail.         *)
(***************************************************************************)
InsertNext ==
    \/ JumpTo(ClockEnd)
    \/ \E p \in Tasks : CallReserveOne(p)
    \/ \E p \in Tasks : PostConfirm(p)
    \/ \E p \in Tasks : Finish(p)
    \/ \E p \in Tasks : Decrement(p, MaxRes)
    \/ \E p \in Tasks : ReserveInsufficient(p)
    \/ \E p \in Tasks : ReserveSetBlob(p)
    \/ \E p \in Tasks : ReserveZadd(p)
    \/ \E p \in Tasks : CheckoutLookup(p, MaxOrders)
    \/ \E p \in Tasks : CheckoutPending(p)
    \/ \E p \in Tasks : PendingFails(p)
    \/ \E p \in Tasks : ConfirmWatchGet(p)
    \/ \E p \in Tasks : ConfirmZscore(p)
    \/ \E p \in Tasks : ConfirmExec(p)
    \/ \E p \in Tasks : CheckoutFail(p)
    \/ \E p \in Tasks : CheckoutCommit(p)

SpecInsert == CheckoutInit /\ [][InsertNext]_vars

\* Concurrent POST /inventory/reserve requests, one each, while both websockets are
\* connected to the SKU and stay connected: the requests start once every
\* websocket has had its initial message, and no client goes away.
LiveInit == InitWith(1..NumRacers, {"A"}, {0}, MaxLive)

PostReserveWatched(p) ==
    /\ \A c \in Sockets : conn[c].at = "open"
    /\ PostReserve(p)

LiveNext ==
    \/ \E c \in Sockets : WsConnect(c, "A")
    \/ \E c \in Sockets : WsInitial(c)
    \/ \E p \in Tasks : PostReserveWatched(p)
    \/ \E p \in Tasks : RLGet(p)
    \/ \E p \in Tasks : RLSetex(p)
    \/ \E p \in Tasks : RLReject(p)
    \/ \E p \in Tasks : RLIncr(p)
    \/ \E p \in Tasks : Decrement(p, MaxLive)
    \/ \E p \in Tasks : ReserveInsufficient(p)
    \/ \E p \in Tasks : ReserveSetBlob(p)
    \/ \E p \in Tasks : ReserveZadd(p)
    \/ \E p \in Tasks : BroadcastStatus(p)
    \/ \E p \in Tasks : BroadcastSend(p)

SpecLive == LiveInit /\ [][LiveNext]_vars

(***************************************************************************)
(* Properties.                                                             *)
(***************************************************************************)
\* The quantity reserve handed out under id r.
QuantityOf(r) == (CHOOSE x \in responses : x.rid = r /\ ~x.hit).quantity
SkuOf(r) == (CHOOSE x \in responses : x.rid = r /\ ~x.hit).sku

Outstanding(s) == {r \in DOMAIN ledger : ledger[r].sku = s}
Confirmed(s) == {r \in confirmed : SkuOf(r) = s}

\* C1: in every reachable state, whatever the interleaving of reserve,
\* confirm, cancel, release and expiry-worker ticks after set_inventory(sku, n)
\* with n >= 0, available(sku) >= 0.
C1_StockNonNegative == \A s \in Skus : stock[s] >= 0

\* A reserve has taken the last unit of a sku.
C1_Witness == \E r \in DOMAIN ledger : stock[ledger[r].sku] = 0 /\ setValue[ledger[r].sku] > 0

\* C2: N concurrent reserves of one quantity q against a sku holding s, and
\* nothing else: exactly min(N, s \div q) succeed, the others fail with
\* insufficient inventory, and available ends at s - q * successes.
RaceDone == {p \in Tasks : task[p].pc = "done"}
RaceWon == {p \in RaceDone : task[p].res = "ok"}
Min(a, b) == IF a <= b THEN a ELSE b

C3_Conservation ==
    Quiescent =>
        \A s \in Skus :
            stock[s] + Sum([r \in Outstanding(s) |-> ledger[r].quantity], Outstanding(s))
                     + Sum([r \in Confirmed(s) |-> QuantityOf(r)], Confirmed(s))
                = setValue[s]

\* C4: no reservation is both confirmed successfully and restored to stock.
C4_ConfirmXorRelease == \A r \in confirmed : restored[r] = 0

\* C5: concurrent releasers of one reservation restore its quantity at most once.
C5_ReleasedOnce == \A r \in DOMAIN restored : restored[r] <= 1

\* C6: at every quiescent point a reservation blob exists iff its id is in
\* expiring_reservations.
C6_LedgerIffIndex ==
    Quiescent => \A r \in 1..(nextId - 1) : Exists(r) <=> Indexed(r)

\* A reservation was made and released, and both entries are gone.
C6_Witness ==
    /\ Quiescent
    /\ \E r \in issued : restored[r] > 0 /\ ~Exists(r) /\ ~Indexed(r)

\* C7: a reserve whose idempotency key already holds a recorded result
\* returns the reservation_id and the expires_at instant the recording call
\* returned, takes no stock and writes no ledger or index entry.
Recorded == {w \in responses : ~w.hit}

C7_IdempotentReplay ==
    /\ \A h \in responses : h.hit =>
           \E w \in Recorded :
               w.key = h.key /\ w.rid = h.rid /\ w.expires_at.t = h.expires_at.t
    /\ Quiescent =>
           /\ stock["A"] = setValue["A"] - Sum([w \in Recorded |-> w.quantity], Recorded)
           /\ DOMAIN ledger = {w.rid : w \in Recorded}
           /\ DOMAIN index = {w.rid : w \in Recorded}

\* A replay has been answered from the cache, at a later time than the
\* reservation was made.
C7_Witness ==
    /\ Quiescent
    /\ \E h \in responses : h.hit /\ ledger[h.rid].created_at < now

\* C8: for arbitrary schedules, all reserves sharing one idempotency key
\* within the cache TTL return the same reservation_id (and so take stock once).
C8_OneReservationPerKey ==
    \A a, b \in responses : (a.key # NoKey /\ a.key = b.key) => a.rid = b.rid

\* C9: a request the limiter rejects changes neither the stock, nor the
\* ledger, nor the expiry index, nor the idempotency cache, nor the counter:
\* its read of the counter and the step that ends it with 429 leave them as
\* they were.
C9_RejectedChangesNothing ==
    [][\A p \in Tasks :
          (task'[p] # task[p] /\ (task[p].pc = "rl_get" \/ task'[p].res = "429"))
              => UNCHANGED <<stock, ledger, index, idem, rate>>]_vars

\* A request has been rejected with 429.
C9_Witness == \E p \in Tasks : task[p].res = "429"

\* C10: within one window of a rate-limit counter at most
\* RATE_LIMIT_PER_MINUTE requests of a principal pass the limiter.
C10_WindowCap == \A u \in Users : admitted[u] <= RATE_LIMIT_PER_MINUTE

\* C11: for every reservation at most one order row ever reaches status
\* confirmed, however concurrent confirm_checkout requests interleave.
OrdersOf(r) == {o \in DOMAIN orders : orders[o].rid = r}
ConfirmedOrdersOf(r) == {o \in OrdersOf(r) : orders[o].status = "confirmed"}

C11_OneConfirmedOrder ==
    \A r \in 1..(nextId - 1) : Cardinality(ConfirmedOrdersOf(r)) <= 1

\* Two requests of the owner raced on one reservation: one order is confirmed,
\* the other failed.
C11_Witness ==
    \E a, b \in DOMAIN orders :
        /\ orders[a].rid = orders[b].rid
        /\ orders[a].user_id = orders[b].user_id
        /\ orders[a].status = "confirmed"
        /\ orders[b].status = "failed"

C13_WrongOwnerConfirm ==
    /\ [](\A p \in Tasks :
             (task[p].op = "confirm" /\ task[p].pc \in {"cf_exec", "co_commit"})
                 => task[p].data.user_id = task[p].user)
    /\ [][\A p \in Tasks :
             (/\ task[p].op = "confirm"
              /\ task'[p].pc # task[p].pc
              /\ task[p].data.user_id # task[p].user)
                 => /\ UNCHANGED <<stock, ledger, index>>
                    /\ (/\ task[p].pc = "cf_zscore"
                        /\ Indexed(task[p].rid)
                        /\ index[task[p].rid] # 0
                        /\ ~ConfirmExpired(now, index[task[p].rid], grace_period_seconds))
                           => task'[p].res = "wrong_owner"]_vars

\* Another principal's confirm_checkout was answered 403 and the reservation
\* is still in the ledger and the index.
C13_Witness ==
    \E p \in Tasks :
        /\ task[p].pc = "done" /\ task[p].res = "403"
        /\ Exists(task[p].rid) /\ Indexed(task[p].rid)

\* An audit row of type expire names reservation r.
ExpireAudited(r) ==
    \E a \in audit : a.event_type = "expire" /\ a.reservation_id = r

\* r is gone from ledger and index, its quantity was added back exactly once
\* and the worker logged the expiry.
SweptAway(r) ==
    /\ ~Exists(r) /\ ~Indexed(r)
    /\ r \in DOMAIN restored /\ restored[r] = 1
    /\ ExpireAudited(r)

\* C14: while the worker's loop keeps running, every reservation that is in
\* the ledger and the index and whose score has passed is eventually gone
\* from both, its quantity added back to available(sku) once, with an audit
\* row of type expire for it (no reservation is confirmed or cancelled here).
C14_ExpiredEventuallyReleased ==
    \A r \in 1..MaxLive :
        (Exists(r) /\ Indexed(r) /\ index[r] <= now) ~> SweptAway(r)

\* The worker has released an expired reservation and logged it.
C14_Witness == \E r \in issued : now >= RESERVATION_TTL_SECONDS /\ SweptAway(r)

\* A step of task p inside confirm_reservation (the call itself included).
ConfirmStep(p) ==
    /\ task'[p].op = "confirm"
    /\ task'[p].pc # task[p].pc
    /\ task[p].pc \in {"idle", "cf_watch", "cf_zscore", "cf_exec"}

\* The step with which confirm_reservation of task p returns the reservation.
ConfirmSucceeds(p) ==
    /\ task[p].op = "confirm" /\ task[p].pc = "cf_exec"
    /\ task'[p].pc # "cf_exec"
    /\ task'[p].res # "watch_error"

\* C15: confirm_reservation is all-or-nothing.  The step in which it succeeds
\* removes the blob and the index entry together, both present until then,
\* and returns the blob it removed; every other step of it, a raise included,
\* leaves ledger, index and stock as they are.  A confirmed reservation is
\* therefore in neither the ledger nor the index, in every state.
C15_ConfirmAllOrNothing ==
    /\ [](\A r \in confirmed : ~Exists(r) /\ ~Indexed(r))
    /\ [][\A p \in Tasks : ConfirmStep(p) =>
             IF ConfirmSucceeds(p)
             THEN /\ Exists(task[p].rid) /\ Indexed(task[p].rid)
                  /\ task[p].data = ledger[task[p].rid]
                  /\ ledger' = Remove(ledger, task[p].rid)
                  /\ index' = Remove(index, task[p].rid)
                  /\ stock' = stock
             ELSE UNCHANGED <<stock, ledger, index>>]_vars

\* One confirm_reservation returned the reservation while a concurrent one
\* of the same reservation ended in WatchError.
C15_Witness ==
    \E p, q \in Tasks :
        /\ task[p].op = "confirm" /\ task[p].pc = "done" /\ task[p].res = "ok"
        /\ task[q].op = "confirm" /\ task[q].pc = "done" /\ task[q].res = "watch_error"
        /\ confirmed # {}

\* C16: no step of confirm_reservation, succeeding or raising, changes
\* available(sku).
C16_ConfirmKeepsStock ==
    [][\A p \in Tasks : ConfirmStep(p) => stock' = stock]_vars

\* A reservation was confirmed, nothing was restored, and its units are
\* still missing from available(sku).
C16_Witness ==
    \E r \in confirmed :
        /\ r \notin DOMAIN restored \/ restored[r] = 0
        /\ Quiescent
        /\ stock["A"] = setValue["A"] - QuantityOf(r)

\* No other task is working on reservation r.
OnlyOf(p, r) == \A q \in Tasks \ {p} : task[q].rid # r

\* C17: operations on distinct reservations are independent.  When the
\* owner's confirm of reservation A has passed its checks, A's blob and index
\* entry are still there at EXEC and no other task works on A, the confirm
\* succeeds, whatever ran meanwhile on other reservation ids.
C17_DistinctIndependent ==
    [][\A p \in Tasks :
          (/\ task[p].op = "confirm" /\ task[p].pc = "cf_exec"
           /\ task'[p].pc # "cf_exec"
           /\ Exists(task[p].rid) /\ Indexed(task[p].rid)
           /\ ledger[task[p].rid] = task[p].data
           /\ OnlyOf(p, task[p].rid))
          => task'[p].res = "ok"]_vars

\* Task p is in confirm_reservation for a reservation of its own principal
\* whose blob and index entry exist.
OwnLive(p) ==
    /\ Exists(task[p].rid) /\ Indexed(task[p].rid)
    /\ ledger[task[p].rid].user_id = task[p].user

\* C18: called on its own, confirm_reservation raises not_found when the blob
\* is absent; for the owner of a reservation with blob and index entry it
\* passes the expiry check when now <= score + grace and then succeeds,
\* removing both, and it raises expired, with ledger, index and stock left
\* unchanged, when now > score + grace.
C18_ConfirmByExpiry ==
    [][\A p \in Tasks :
          (task[p].op = "confirm" /\ task'[p].pc # task[p].pc) =>
             /\ (task[p].pc = "cf_watch" /\ ~Exists(task[p].rid)) =>
                    /\ task'[p].res = "not_found"
                    /\ UNCHANGED <<stock, ledger, index>>
             /\ (task[p].pc = "cf_zscore" /\ OwnLive(p)) =>
                    IF now > index[task[p].rid] + grace_period_seconds
                    THEN /\ task'[p].res = "expired"
                         /\ UNCHANGED <<stock, ledger, index>>
                    ELSE task'[p].pc = "cf_exec"
             /\ task[p].pc = "cf_exec" =>
                    /\ task'[p].res = "ok"
                    /\ ledger' = Remove(ledger, task[p].rid)
                    /\ index' = Remove(index, task[p].rid)
                    /\ task[p].rid \in confirmed']_vars

\* A confirm was refused as expired, its reservation being past score plus
\* grace and still in ledger and index, after another one was confirmed.
C18_Witness ==
    \E p \in Tasks, r \in issued :
        /\ task[p].op = "confirm" /\ task[p].pc = "done" /\ task[p].res = "expired"
        /\ Exists(r) /\ Indexed(r)
        /\ now > index[r] + grace_period_seconds
        /\ confirmed # {}

\* C19: called on its own, cancel_reservation returns false and changes
\* nothing when the blob is absent; raises wrong_owner and leaves ledger,
\* index and stock as they are when the blob is another principal's; and for
\* the owner adds exactly the blob's quantity to available(sku), once, then
\* removes the blob, then the index entry, and returns true.
C19_CancelCases ==
    [][\A p \in Tasks :
          (task'[p].op = "cancel" /\ task'[p].pc # task[p].pc) =>
             LET rid == task[p].rid IN
             /\ task[p].pc = "ca_get" =>
                    /\ UNCHANGED <<stock, ledger, index>>
                    /\ IF ~Exists(rid) THEN task'[p].res = "false"
                       ELSE IF ledger[rid].user_id # task[p].user
                            THEN task'[p].res = "wrong_owner"
                       ELSE task'[p].pc = "rel_get"
             /\ task[p].pc = "rel_get" =>
                    /\ UNCHANGED <<stock, ledger, index>>
                    /\ task'[p].pc = "rel_restore"
             /\ task[p].pc = "rel_restore" =>
                    /\ Exists(rid) /\ restored[rid] = 0
                    /\ stock' = [stock EXCEPT ![ledger[rid].sku] = @ + ledger[rid].quantity]
                    /\ UNCHANGED <<ledger, index>>
             /\ task[p].pc = "rel_del" =>
                    /\ ledger' = Remove(ledger, rid)
                    /\ UNCHANGED <<stock, index>>
             /\ task[p].pc = "rel_zrem" =>
                    /\ index' = Remove(index, rid)
                    /\ ~Exists(rid) /\ restored[rid] = 1
                    /\ UNCHANGED <<stock, ledger>>
                    /\ task'[p].res = "true"
             /\ task[p].pc # "rel_gone"]_vars

\* The owner's cancel returned true: nothing is reserved or confirmed any
\* more and available(sku) is back at the value set.
C19_Witness ==
    \E p \in Tasks :
        /\ task[p].op = "cancel" /\ task[p].pc = "done" /\ task[p].res = "true"
        /\ issued # {} /\ ledger = <<>> /\ index = <<>> /\ confirmed = {}
        /\ stock = setValue

\* What is neither held by a live reservation nor consumed by a confirmed
\* one is available: the stock of sku s is what set_inventory wrote minus
\* the quantities of the reservations in the ledger and of those confirmed.
BackInStock(s) ==
    stock[s] = setValue[s]
               - Sum([r \in Outstanding(s) |-> ledger[r].quantity], Outstanding(s))
               - Sum([r \in Confirmed(s) |-> QuantityOf(r)], Confirmed(s))

\* C20: release_reservation called again and again, one call at a time.  A
\* call that finds the blob adds its quantity to available(sku), removes blob
\* and index entry and returns true, after which the units reserved are back;
\* a call that finds no blob returns false and changes neither stock, ledger
\* nor index.  No reservation is ever restored twice.
C20_ReleaseIdempotent ==
    /\ [](\A r \in DOMAIN restored : restored[r] <= 1)
    /\ [][\A p \in Tasks :
             (task'[p].op = "release" /\ task'[p].pc # task[p].pc) =>
                LET rid == task[p].rid IN
                /\ task[p].pc = "rel_get" =>
                       /\ UNCHANGED <<stock, ledger, index>>
                       /\ task'[p].pc = IF Exists(rid) THEN "rel_restore" ELSE "rel_gone"
                /\ task[p].pc = "rel_gone" =>
                       /\ UNCHANGED <<stock, ledger, index>>
                       /\ task'[p].res = "false"
                /\ task[p].pc = "rel_restore" =>
                       /\ Exists(rid) /\ restored[rid] = 0
                       /\ stock' = [stock EXCEPT ![ledger[rid].sku] = @ + ledger[rid].quantity]
                       /\ UNCHANGED <<ledger, index>>
                /\ task[p].pc = "rel_del" =>
                       /\ ledger' = Remove(ledger, rid)
                       /\ UNCHANGED <<stock, index>>
                /\ task[p].pc = "rel_zrem" =>
                       /\ index' = Remove(index, rid)
                       /\ UNCHANGED <<stock, ledger>>
                       /\ ~Exists(rid) /\ rid \notin DOMAIN index'
                       /\ task'[p].res = "true"
                       /\ \A s \in Skus : BackInStock(s)]_vars

\* A release_reservation call returned false, every reservation issued
\* having been released before, exactly once, and the stock is back at the
\* value set.
C20_Witness ==
    \E p \in Tasks :
        /\ task[p].op = "release" /\ task[p].pc = "done" /\ task[p].res = "false"
        /\ issued # {} /\ confirmed = {} /\ ledger = <<>> /\ index = <<>>
        /\ \A r \in issued : restored[r] = 1
        /\ stock = setValue

\* The worker has restored the stock of the reservation it is releasing.
SweeperReleased(p) ==
    task[p].op = "sweep" /\ task[p].pc \in {"rel_del", "rel_zrem", "sw_audit"}

\* C21: the sweeper never releases a reservation before its expiry: whenever
\* the worker has released a reservation, created_at + TTL of that
\* reservation is not later than the present time (and so not later than
\* the time of the tick's snapshot it would have to precede).
C21_NoEarlyRelease ==
    \A p \in Tasks :
        SweeperReleased(p) => task[p].pre.created_at + RESERVATION_TTL_SECONDS <= now

\* The reservations whose index entry will make the worker give their units
\* back: blob and index entry present, stock not yet restored.
Collectable == {r \in DOMAIN ledger \cap DOMAIN index : restored[r] = 0}

\* Units of sku A that are out of stock and that no index entry will bring
\* back.
Leak ==
    setValue["A"] - stock["A"] - Sum([r \in Collectable |-> ledger[r].quantity], Collectable)

\* C22: a reserve abandoned after its decrement does not lose units for
\* good: from the moment it is abandoned, eventually every unit missing from
\* available(sku) is back or is held by a reservation the sweeper can collect.
C22_AbandonedCollected ==
    (\E p \in Tasks : task[p].res = "abandoned") ~> (Leak = 0)

\* The units handed out and not given back: the quantities of the
\* reservations reserve returned to a caller whose stock was not restored.
HandedOut == {r \in issued : restored[r] = 0}

\* C23: when the ledger write or the index insert of a reserve has failed,
\* available(sku) is what it was before the call: the value set minus the
\* quantities of the reservations handed out and not released.
C23_FailedReserveCompensated ==
    \A p \in Tasks :
        (task[p].op = "reserve" /\ task[p].pc = "done" /\ task[p].res \in {"error", "500"}) =>
            stock["A"] = setValue["A"] - Sum([r \in HandedOut |-> QuantityOf(r)], HandedOut)

\* C24: a reserve that failed for insufficient stock reports an available
\* value smaller than the quantity it asked for (the value the script's
\* check saw), whatever ran concurrently.
C24_ReportedBelowRequest ==
    \A p \in Tasks :
        (/\ task[p].op = "reserve" /\ task[p].pc = "done"
         /\ task[p].res \in {"insufficient", "409"})
        => task[p].out.available < task[p].quantity

\* A step of task p inside reserve_inventory (the call itself included).
ReserveStep(p) == task'[p].op = "reserve" /\ task'[p].pc # task[p].pc

\* C25: a reserve is all-or-nothing in quantity.  Its script either takes
\* exactly the requested quantity from available(sku) or takes nothing and
\* the call fails without writing; a call whose script succeeded writes one
\* new ledger entry holding the caller's user_id, the sku and the quantity,
\* then one index entry for it whose score is the timestamp of the
\* expires_at it returns; no other step of it touches stock, ledger or index.
C25_ReserveAllOrNothing ==
    [][\A p \in Tasks : ReserveStep(p) =>
          LET t == task[p] IN
          /\ t.pc = "idle" => UNCHANGED <<stock, ledger, index>>
          /\ t.pc = "script" =>
                 /\ UNCHANGED <<ledger, index>>
                 /\ IF stock[t.sku] >= t.quantity
                    THEN /\ stock' = [stock EXCEPT ![t.sku] = @ - t.quantity]
                         /\ task'[p].pc = "set_blob"
                    ELSE /\ stock' = stock
                         /\ task'[p].pc = "insuf_get"
          /\ t.pc = "insuf_get" =>
                 /\ UNCHANGED <<stock, ledger, index>>
                 /\ task'[p].res = "insufficient"
          /\ t.pc = "set_blob" =>
                 /\ UNCHANGED <<stock, index>>
                 /\ \E r \in DOMAIN ledger' \ DOMAIN ledger :
                        /\ DOMAIN ledger' = DOMAIN ledger \cup {r}
                        /\ \A x \in DOMAIN ledger : ledger'[x] = ledger[x]
                        /\ ledger'[r].user_id = t.user
                        /\ ledger'[r].sku = t.sku
                        /\ ledger'[r].quantity = t.quantity
                        /\ task'[p].rid = r
          /\ t.pc = "zadd" =>
                 /\ UNCHANGED <<stock, ledger>>
                 /\ ~Indexed(t.rid)
                 /\ DOMAIN index' = DOMAIN index \cup {t.rid}
                 /\ \A x \in DOMAIN index : index'[x] = index[x]
                 /\ task'[p].res = "ok" /\ task'[p].out.rid = t.rid
                 /\ index'[t.rid] = Timestamp(task'[p].out.t)
                 /\ \E x \in responses' \ responses :
                        /\ x.rid = t.rid /\ x.sku = t.sku /\ x.quantity = t.quantity
                        /\ x.expires_at.t = task'[p].out.t]_vars

\* A reserve has returned: its reservation is in ledger and index with the
\* quantity asked for, and exactly that many units are out of stock.
C25_Witness ==
    \E p \in Tasks, r \in issued :
        /\ task[p].op = "reserve" /\ task[p].pc = "done" /\ task[p].res = "ok"
        /\ task[p].out.rid = r
        /\ Exists(r) /\ Indexed(r)
        /\ ledger[r].quantity = task[p].quantity
        /\ stock["A"] = setValue["A"] - task[p].quantity

\* Task p runs confirm_checkout and its get_reservation found no blob.
FoundNothing(p) ==
    /\ task[p].op = "confirm" /\ task[p].route
    /\ task[p].pc \in {"cf_watch", "cf_zscore", "cf_exec", "co_fail", "co_commit"}
    /\ task[p].pre = NoBlob

\* C26: a confirm_checkout for a reservation id that is not in the ledger
\* inserts no order row, goes straight to confirm_reservation, and ends with
\* 404 in the step that finds the blob missing, without any change to the
\* orders table or the audit table.
C26_AbsentConfirmNotFound ==
    [][\A p \in Tasks :
          (task[p].op = "confirm" /\ task[p].route /\ task'[p].pc # task[p].pc) =>
             /\ (task[p].pc = "co_get" /\ ~Exists(task[p].rid)) =>
                    /\ task'[p].pc = "cf_watch" /\ task'[p].pre = NoBlob
                    /\ task'[p].order = 0
                    /\ UNCHANGED <<orders, nextOrder, audit>>
             /\ FoundNothing(p) =>
                    /\ task[p].pc = "cf_watch" /\ task[p].order = 0
                    /\ task'[p].pc = "done" /\ task'[p].res = "404"
                    /\ UNCHANGED <<orders, nextOrder, audit, stock, ledger, index>>]_vars

\* A confirm_checkout for a reservation already consumed was answered 404
\* and wrote no row: the only order of the reservation is the confirmed one.
C26_Witness ==
    \E p \in Tasks :
        /\ task[p].op = "confirm" /\ task[p].route
        /\ task[p].pc = "done" /\ task[p].res = "404"
        /\ ~Exists(task[p].rid)
        /\ \A o \in OrdersOf(task[p].rid) : orders[o].status = "confirmed"

\* The ways confirm_reservation fails.
ConfirmFailures == {"not_found", "invalid", "expired", "wrong_owner", "watch_error"}

\* C27: a confirm_checkout that inserted a pending order and whose
\* confirm_reservation then failed (not found, expired, wrong owner, lock
\* conflict) sets that row to failed in the step that surfaces the error;
\* every row in status pending belongs to a request still running.
C27_FailedOrderMarked ==
    /\ [](\A o \in DOMAIN orders :
             orders[o].status = "pending" =>
                \E p \in Tasks : InFlight(p) /\ task[p].order = o)
    /\ [][\A p \in Tasks :
             (task[p].op = "confirm" /\ task[p].route /\ task'[p].pc # task[p].pc) =>
                /\ (/\ task[p].pc \in {"cf_watch", "cf_zscore", "cf_exec"}
                    /\ task[p].order # 0
                    /\ task'[p].pc \notin {"cf_zscore", "cf_exec", "co_commit"}) =>
                       /\ task'[p].pc = "co_fail"
                       /\ task'[p].res \in ConfirmFailures
                       /\ task'[p].order = task[p].order
                /\ task[p].pc = "co_fail" =>
                       /\ task[p].order \in DOMAIN orders
                       /\ orders[task[p].order].status = "pending"
                       /\ orders' = [orders EXCEPT ![task[p].order].status = "failed"]
                       /\ task'[p].pc = "done"
                       /\ task'[p].res =
                              IF task[p].res \in {"not_found", "invalid", "expired"} THEN "404"
                              ELSE IF task[p].res = "wrong_owner" THEN "403" ELSE "500"]_vars

\* A confirm_checkout of a reservation past its grace period by its owner
\* was answered 404, and the order row it had inserted is failed.
C27_Witness ==
    \E p \in Tasks, o \in DOMAIN orders :
        /\ task[p].op = "confirm" /\ task[p].pc = "done" /\ task[p].res = "404"
        /\ orders[o].rid = task[p].rid /\ orders[o].status = "failed"
        /\ Exists(task[p].rid) /\ Indexed(task[p].rid)
        /\ orders[o].user_id = ledger[task[p].rid].user_id
        /\ now > index[task[p].rid] + grace_period_seconds

\* Task p's confirm_checkout consumed the reservation and then failed to
\* commit the order.
CommitFailed(p) ==
    /\ task[p].op = "confirm" /\ task[p].pc = "done" /\ task[p].res = "500"
    /\ task[p].order # 0

\* C28: when the consume succeeded and the finalising commit failed, the
\* order row is failed, the reservation is in neither ledger nor index and
\* its quantity was not restored.
C28_CommitFailureMarked ==
    \A p \in Tasks :
        CommitFailed(p) =>
            /\ orders[task[p].order].status = "failed"
            /\ ~Exists(task[p].rid) /\ ~Indexed(task[p].rid)
            /\ restored[task[p].rid] = 0

\* C29: in every state, an order row in status confirmed belongs to a
\* reservation that is neither in the ledger nor in the expiry index.
C29_ConfirmedOrderConsumed ==
    \A o \in DOMAIN orders :
        orders[o].status = "confirmed" =>
            ~Exists(orders[o].rid) /\ ~Indexed(orders[o].rid)

\* An order was confirmed, for a reservation that was handed out and is gone
\* from ledger and index, and its request was answered 200.
C29_Witness ==
    \E o \in DOMAIN orders, p \in Tasks :
        /\ orders[o].status = "confirmed" /\ orders[o].rid \in issued
        /\ task[p].pc = "done" /\ task[p].res = "200" /\ task[p].order = o
        /\ ~Exists(orders[o].rid) /\ ~Indexed(orders[o].rid)

\* The update messages the websocket has received.
Updates(c) == Cardinality({i \in 1..Len(inbox[c]) : inbox[c][i].type = "update"})

\* The availability of a sku has just been changed by the task: its reserve
\* took the stock, or its release (for a cancel or for the worker) put it back.
JustChanged(p) ==
    \/ task[p].op = "reserve" /\ task[p].pc = "set_blob"
    \/ task[p].op \in {"cancel", "sweep"} /\ task[p].pc = "rel_del"

\* The reserve whose request ended without success.
ReserveFailed(p) ==
    task[p].op = "reserve" /\ task[p].pc = "done" /\ task[p].res # "201"

\* C30: whenever a reserve, a cancel or an expiry release has changed the
\* availability of a sku while a websocket is registered for it and open,
\* the websocket later receives one more update message (unless it closes
\* or the reserve fails).
C30_SubscribersTold ==
    \A c \in Watchers, n \in 0..MaxRes :
        (/\ \E p \in Tasks : JustChanged(p)
         /\ conn[c].at = "open" /\ Registered(c) /\ Updates(c) = n)
        ~> (\/ Updates(c) > n
            \/ conn[c].at # "open"
            \/ \E p \in Tasks : ReserveFailed(p))

\* The step by which the broadcast of task p ends: its loop is over and the
\* connections on disconnected are taken out of the registry.
BroadcastEnds(p) == task[p].pc = "bc_send" /\ task'[p].pc = "done"

Elems(list) == {list[i] : i \in 1..Len(list)}

\* The websocket has the message in its inbox.
Got(box, c, m) == \E i \in 1..Len(box[c]) : box[c][i] = m

\* C31: when a broadcast in which a send failed ends, the connections whose
\* send failed are out of the registry; every other connection that was
\* registered when the broadcast started, still is and has not closed has
\* the message; the request is answered 201; and the sku's key, if it is
\* still there, holds a non-empty list.
C31_FailedSendCleanedUp ==
    [][\A p \in Tasks :
          (BroadcastEnds(p) /\ task[p].dead # <<>>) =>
              LET s == task[p].sku IN
              /\ \A c \in Elems(task[p].dead) : ~InList(registry'[s].list, c)
              /\ \A c \in Elems(task[p].snap) \ Elems(task[p].dead) :
                     (InList(registry'[s].list, c) /\ conn'[c].at \in {"joined", "open"})
                         => Got(inbox', c, task[p].msg)
              /\ task'[p].res = "201"
              /\ registry'[s].present => registry'[s].list # <<>>]_vars

\* The times the websocket has received the message.
Times(box, c, m) == Cardinality({i \in 1..Len(box[c]) : box[c][i] = m})

\* C32: when a broadcast ends, every connection that was registered when it
\* started, is still registered and has not closed has received its
\* message exactly once.
C32_ExactlyOnce ==
    [][\A p \in Tasks :
          BroadcastEnds(p) =>
              \A c \in Elems(task[p].snap) :
                  (InList(registry'[task[p].sku].list, c) /\ conn'[c].at \in {"joined", "open"})
                      => Times(inbox', c, task[p].msg) = 1]_vars

\* C33: in every state, a rate-limit counter key that exists has an expiry,
\* and the expiry is at most one window away.
C33_CounterExpires ==
    \A u \in Users :
        rate[u].count > 0 =>
            /\ rate[u].exp # 0
            /\ rate[u].exp - now <= window_seconds

\* C34: in every state, the value the last set_inventory stored for a sku
\* is not negative, and neither is the available a status request was
\* answered with.
C34_AdminNeverNegative ==
    /\ \A s \in Skus : setValue[s] >= 0
    /\ \A p \in Tasks :
           (task[p].op = "status" /\ task[p].pc = "done") => task[p].out.available >= 0

\* C35: every step of the worker inside a tick either stays with the id it
\* is processing, or moves on to the next id of the tick's snapshot and
\* starts with its lookup, or, on the last id of the snapshot, ends the
\* tick: no id of the snapshot is left out, whatever failed before it.
C35_TickGoesOn ==
    [][\A p \in Tasks :
          (task[p].op = "sweep" /\ task'[p] # task[p]) =>
              \/ /\ task'[p].op = "sweep"
                 /\ task'[p].snap = task[p].snap /\ task'[p].rid = task[p].rid
              \/ /\ Len(task[p].snap) > 1
                 /\ task'[p].op = "sweep" /\ task'[p].pc = "sw_get"
                 /\ task'[p].snap = Tail(task[p].snap)
                 /\ task'[p].rid = Head(task'[p].snap)
              \/ /\ Len(task[p].snap) = 1
                 /\ task'[p] = Idle]_vars

\* After an error for one id of the snapshot the worker has released the
\* next one.
C35_Witness ==
    \E p \in Tasks :
        /\ task[p].op = "sweep" /\ task[p].res = "error"
        /\ task[p].pc = "sw_audit"
        /\ restored[task[p].rid] = 1

\* The step by which reserve_inventory hands a reservation to its caller.
ReserveReturns(p) ==
    /\ task[p].op = "reserve" /\ task[p].pc # "done"
    /\ task'[p].pc = "done" /\ task'[p].out.rid # 0

\* C36: whenever reserve returns a reservation to user u, with or without
\* idempotency key, the user_id in the ledger entry of that reservation is u.
C36_OwnReservationReturned ==
    [][\A p \in Tasks :
          ReserveReturns(p) =>
              LET r == task'[p].out.rid IN
              r \in DOMAIN ledger' => ledger'[r].user_id = task[p].user]_vars

C38_OrderStatusMoves ==
    [][/\ DOMAIN orders \subseteq DOMAIN orders'
       /\ \A o \in DOMAIN orders' :
              IF o \in DOMAIN orders
              THEN orders'[o].status # orders[o].status =>
                       /\ orders[o].status = "pending"
                       /\ orders'[o].status \in {"confirmed", "failed"}
              ELSE orders'[o].status = "pending"]_vars

\* One order has been confirmed and another has failed, and a further
\* confirm_checkout request is on its way.
C38_Witness ==
    /\ \E o \in DOMAIN orders : orders[o].status = "confirmed"
    /\ \E o \in DOMAIN orders : orders[o].status = "failed"
    /\ \E p \in Tasks : task[p].op = "confirm" /\ task[p].route /\ InFlight(p)

\* A confirm_checkout request that ended 500 because its pending row could
\* not be inserted.
InsertFailed(t) ==
    /\ t.op = "confirm" /\ t.route /\ t.pc = "done" /\ t.res = "500"
    /\ t.order = 0 /\ t.pre # NoBlob

\* C39: the step in which the insert of the pending order fails leaves the
\* ledger, the expiry index, the stock and the orders table as they were;
\* and in every state, the reservation of a request that failed at the
\* insert is in ledger and index as the request found it, unless another
\* request has confirmed it since.
C39_FailedInsertConsumesNothing ==
    /\ [][\A p \in Tasks :
             (task[p].pc = "co_pending" /\ InsertFailed(task'[p])) =>
                 /\ ledger' = ledger /\ index' = index /\ stock' = stock
                 /\ orders' = orders]_vars
    /\ [](\A p \in Tasks :
             (InsertFailed(task[p]) /\ task[p].rid \notin confirmed) =>
                 /\ Exists(task[p].rid) /\ Indexed(task[p].rid)
                 /\ ledger[task[p].rid] = task[p].pre)

\* A request failed at the insert, and a request of the owner for the same
\* reservation was confirmed with an order of its own.
C39_Witness ==
    \E p, q \in Tasks :
        /\ InsertFailed(task[p])
        /\ task[q].op = "confirm" /\ task[q].pc = "done" /\ task[q].res = "200"
        /\ task[q].rid = task[p].rid
        /\ task[q].order \in DOMAIN orders /\ orders[task[q].order].status = "confirmed"
        /\ Cardinality(DOMAIN orders) = 1

\* Every request has returned, none with a 500, and the broadcast of each
\* reservation made has gone through the whole list.
Settled ==
    \A p \in Tasks :
        task[p].op = "reserve" /\ task[p].pc = "done" /\ task[p].res # "500"

LastUpdate(c) ==
    LET at == {i \in 1..Len(inbox[c]) : inbox[c][i].type = "update"} IN
    inbox[c][CHOOSE i \in at : \A j \in at : j <= i]

====
